---------------------------- MODULE Spec2Model ----------------------------
(***************************************************************************)
(* Pose evaluation and adaptation pipeline of gaara-ai/backend:            *)
(*   core/physics_engine.py   YogaPhysicsEngine.validate_angles            *)
(*   core/rule_engine.py      SuryaNamaskarRuleEngine                      *)
(*   core/safety_engine.py    SafetyAdaptationEngine, UserProfileManager   *)
(*   core/correction_engine.py YogaCorrectionEngine                        *)
(*   app/session_manager.py   StatelessSessionManager.evaluate_pose        *)
(*   app/dependency_container.py DependencyContainer                       *)
(*   core/progress_tracker.py YogaProgressTracker                          *)
(*   ai/voice_feedback_manager.py VoiceFeedbackManager                     *)
(*                                                                         *)
(* Python values are tagged records [t |-> type, v |-> number]: a bool is  *)
(* an int to isinstance() and to arithmetic (True = 1), None is neither.   *)
(* Dictionaries are functions over a set of string keys; the empty         *)
(* dictionary is <<>>.  A call that can raise returns [raised |-> type]    *)
(* where a call that returns gives [ret |-> value] or the returned dict.   *)
(* Angles are whole degrees; alignment scores are kept in hundredths       *)
(* (round(x, 2) keeps two decimals), so 100.0 is 10000.                    *)
(***************************************************************************)
EXTENDS Integers, Sequences, FiniteSets, TLC

VARIABLES
    safety_rules_file,  \* knowledge/safety_rules.json on disk: absent, corrupt, present
    startup,            \* lifespan: "starting", "serving", or "failed" (it re-raised)
    initialized,        \* DependencyContainer: initialize() has completed
    engines,            \* DependencyContainer: _physics_engine ... _llm_coaching_engine
    knowledge_base,     \* SafetyAdaptationEngine.knowledge_base
    sequence,           \* SuryaNamaskarRuleEngine.knowledge_base[...]['sequence']
    corrections,        \* YogaCorrectionEngine.knowledge_base
    llm_enabled,        \* container.llm_coaching_engine is not None
    pc,                 \* position of the request in evaluate_pose
    request,            \* arguments of the evaluate_pose call being served
    base_rules,         \* local base_rules of evaluate_pose
    safety_result,      \* local safety_result of evaluate_pose
    evaluation,         \* local evaluation of evaluate_pose
    result,             \* what evaluate_pose returned (or the exception it let out)
    calls,              \* engine methods invoked for the current request, in order
    call,               \* a direct call of one engine method: name and arguments
    ret,                \* what that direct call returned or raised
    objects,            \* the dict objects direct callers hold, by identity (position)
    tracker,            \* the attributes of a YogaProgressTracker
    voice               \* a VoiceFeedbackManager, its TTS engine and the clock

vars == <<safety_rules_file, startup, initialized, engines, knowledge_base,
          sequence, corrections, llm_enabled, pc, request, base_rules,
          safety_result, evaluation, result, calls, call, ret, objects, tracker,
          voice>>

containerVars == <<safety_rules_file, startup, initialized, engines, knowledge_base,
                   sequence, corrections, llm_enabled>>
pipelineVars  == <<pc, request, base_rules, safety_result, evaluation, result, calls>>
directVars    == <<call, ret>>
stateVars     == <<objects, tracker, voice>>

---------------------------------------------------------------------------
(* Python values *)

PyInt(n)   == [t |-> "int", v |-> n]
PyFloat(n) == [t |-> "float", v |-> n]
PyBool(b)  == [t |-> "bool", v |-> IF b THEN 1 ELSE 0]
None       == [t |-> "NoneType", v |-> 0]

\* isinstance(value, (int, float)): bool is a subclass of int
IsNumber(x) == x.t \in {"int", "float", "bool"}
\* truth value of a Python scalar
Truthy(x)   == x.t # "NoneType" /\ x.v # 0

EmptyDict == <<>>
Raised(e)    == [raised |-> e]
Returned(x)  == [ret |-> x]
IsRaised(r)  == "raised" \in DOMAIN r
\* dict.get(key, default)
Get(d, k, default) == IF k \in DOMAIN d THEN d[k] ELSE default

\* the subsequence of s whose elements are in S, in the order of s
RECURSIVE SelectIn(_, _)
SelectIn(s, S) ==
    IF s = <<>> THEN <<>>
    ELSE IF Head(s) \in S THEN <<Head(s)>> \o SelectIn(Tail(s), S)
         ELSE SelectIn(Tail(s), S)

Range(s) == {s[i] : i \in DOMAIN s}

---------------------------------------------------------------------------
(* core/physics_engine.py *)

\* field order of JointAngles: the order in which angles.dict() is iterated
AngleOrder == <<"left_knee_angle", "right_knee_angle", "left_elbow_angle",
                "right_elbow_angle", "left_hip_angle", "right_hip_angle",
                "spine_angle", "shoulder_angle">>

\* return True inside the loop: only the first value is checked
validate_first(angles, keys) ==
    IF keys = <<>> THEN Returned(TRUE)
    ELSE LET angle_value == angles[Head(keys)] IN
         IF ~IsNumber(angle_value) THEN Raised("TypeError")
         ELSE Returned(0 <= angle_value.v /\ angle_value.v <= 180)

\* the loop of validate_angles over the remaining keys
RECURSIVE validate_loop(_, _)
validate_loop(angles, keys) ==
    IF keys = <<>> THEN Returned(TRUE)
    ELSE LET angle_value == angles[Head(keys)] IN
         IF ~IsNumber(angle_value) THEN Raised("TypeError")   \* 0 <= None
         ELSE IF ~(0 <= angle_value.v /\ angle_value.v <= 180) THEN Returned(FALSE)
         ELSE validate_loop(angles, Tail(keys))

validate_angles(angles) ==
    validate_loop(angles, SelectIn(AngleOrder, DOMAIN angles))

---------------------------------------------------------------------------
(* core/rule_engine.py *)

\* rules_map of _get_default_rules; heel_height_max 0.05 is kept in hundredths
rules_map ==
    [parvatasana |->
        [knee_angle_min |-> PyInt(170), elbow_angle_min |-> PyInt(170),
         hip_height_above_shoulder |-> PyBool(TRUE), heel_height_max |-> PyFloat(5)],
     hasta_uttanasana |->
        [elbow_angle_min |-> PyInt(165), spine_extension_min |-> PyInt(10),
         arms_overhead |-> PyBool(TRUE)],
     bhujangasana |->
        [elbow_angle_min |-> PyInt(150), spine_extension_min |-> PyInt(15),
         pelvis_grounded |-> PyBool(TRUE)],
     ashwa_sanchalanasana |->
        [front_knee_angle_min |-> PyInt(80), front_knee_angle_max |-> PyInt(110),
         back_knee_angle_min |-> PyInt(160), spine_extension_min |-> PyInt(10)],
     pranamasana |->
        [spine_vertical |-> PyBool(TRUE), feet_together |-> PyBool(TRUE)]]

\* rules_map.get(pose_name, {})
_get_default_rules(pose_name) == Get(rules_map, pose_name, EmptyDict)

\* the sequence of the knowledge base is not consulted
get_pose_rules_NoLookup(seq, pose_name) == _get_default_rules(pose_name)

\* seq is knowledge_base['surya_namaskar']['chakras']['sequence'] reduced to
\* the 'asana' of each entry ([] when a level of the file is absent)
get_pose_rules(seq, pose_name) ==
    IF \E i \in DOMAIN seq : seq[i] = pose_name
    THEN _get_default_rules(pose_name)
    ELSE EmptyDict

\* what one "Evaluate ..." block of evaluate_pose adds to the locals
Tally(total, passed, issues, passed_rules, failed_rules) ==
    [total |-> total, passed |-> passed, issues |-> issues,
     passed_rules |-> passed_rules, failed_rules |-> failed_rules]
NoTally == Tally(0, 0, <<>>, EmptyDict, EmptyDict)

\* > in place of >=
GreaterEqual_Strict(a, b) ==
    IF IsNumber(a) /\ IsNumber(b) THEN Returned(a.v > b.v) ELSE Raised("TypeError")

\* a >= b on two Python values: [ret |-> bool], or TypeError when one is None
GreaterEqual(a, b) ==
    IF IsNumber(a) /\ IsNumber(b) THEN Returned(a.v >= b.v) ELSE Raised("TypeError")

\* joint_angles[key] >= rules[rule_key]
SidePass(joint_angles, key, rules, rule_key) ==
    IF key \notin DOMAIN joint_angles THEN Raised("KeyError")
    ELSE GreaterEqual(joint_angles[key], rules[rule_key])

\* each passing side credited on its own
SideBlock_PerSide(rules, joint_angles, rule_key, left_key, right_key, group, issue) ==
    IF rule_key \notin DOMAIN rules THEN [total |-> 0, passed |-> 0, issues |-> <<>>,
                                          passed_rules |-> <<>>, failed_rules |-> <<>>]
    ELSE LET left_pass  == SidePass(joint_angles, left_key, rules, rule_key)
             right_pass == SidePass(joint_angles, right_key, rules, rule_key)
         IN  IF IsRaised(left_pass) THEN left_pass
             ELSE IF IsRaised(right_pass) THEN right_pass
             ELSE [total |-> 2,
                   passed |-> (IF left_pass.ret THEN 1 ELSE 0)
                              + (IF right_pass.ret THEN 1 ELSE 0),
                   issues |-> IF left_pass.ret /\ right_pass.ret THEN <<>> ELSE <<issue>>,
                   passed_rules |-> IF left_pass.ret /\ right_pass.ret
                                    THEN group :> TRUE ELSE <<>>,
                   failed_rules |-> IF left_pass.ret /\ right_pass.ret
                                    THEN <<>> ELSE group :> FALSE]

\* the knee block and the elbow block: two sub-rules in the total, both
\* credited when the left and the right side pass, none otherwise
SideBlock(rules, joint_angles, rule_key, left_key, right_key, group, issue) ==
    IF rule_key \notin DOMAIN rules THEN NoTally
    ELSE LET left_pass  == SidePass(joint_angles, left_key, rules, rule_key)
             right_pass == SidePass(joint_angles, right_key, rules, rule_key)
         IN  IF IsRaised(left_pass) THEN left_pass
             ELSE IF IsRaised(right_pass) THEN right_pass
             ELSE IF left_pass.ret /\ right_pass.ret
                  THEN Tally(2, 2, <<>>, group :> TRUE, EmptyDict)
                  ELSE Tally(2, 0, <<issue>>, EmptyDict, group :> FALSE)

KneeBlock(rules, joint_angles) ==
    SideBlock(rules, joint_angles, "knee_angle_min", "left_knee_angle",
              "right_knee_angle", "knees_extended", "knees_bent")

ElbowBlock(rules, joint_angles) ==
    SideBlock(rules, joint_angles, "elbow_angle_min", "left_elbow_angle",
              "right_elbow_angle", "elbows_extended", "elbows_bent")

\* the landmark names the hip block reads; landmarks_dict maps a name to the
\* y coordinate of the point (index 1 of the array), in hundredths
HipLandmarks == {"left_hip", "right_hip", "left_shoulder", "right_shoulder"}

\* mid_hip[1] < mid_shoulder[1]: the halved sums compare as the sums do
HipBlock(rules, landmarks_dict) ==
    IF ~("hip_height_above_shoulder" \in DOMAIN rules
         /\ Truthy(rules["hip_height_above_shoulder"]))
    THEN NoTally
    ELSE IF ~(HipLandmarks \subseteq DOMAIN landmarks_dict) THEN Raised("KeyError")
    ELSE IF landmarks_dict["left_hip"] + landmarks_dict["right_hip"]
              < landmarks_dict["left_shoulder"] + landmarks_dict["right_shoulder"]
         THEN Tally(1, 1, <<>>, "hip_elevation" :> TRUE, EmptyDict)
         ELSE Tally(1, 0, <<"hips_low">>, EmptyDict, "hip_elevation" :> FALSE)

\* round(passed_count / total_rules * 100, 2), in hundredths, ties to even
Percent(passed_count, total_rules) ==
    LET n == passed_count * 10000
        q == n \div total_rules
        r == n % total_rules
    IN  IF 2 * r > total_rules THEN q + 1
        ELSE IF 2 * r < total_rules THEN q
        ELSE IF q % 2 = 0 THEN q ELSE q + 1

\* integer division of the two counters before the scaling
AlignmentScore_FloorDiv(passed_count, total_rules) ==
    IF total_rules > 0 THEN (passed_count \div total_rules) * 10000 ELSE 0

\* (passed_count / total_rules * 100) if total_rules > 0 else 0
AlignmentScore(passed_count, total_rules) ==
    IF total_rules > 0 THEN Percent(passed_count, total_rules) ELSE 0

\* the local total_rules of evaluate_pose when it reaches the score: the knee,
\* elbow and hip blocks are the only statements that add to it
total_rules(landmarks_dict, joint_angles, rules) ==
    KneeBlock(rules, joint_angles).total + ElbowBlock(rules, joint_angles).total
        + HipBlock(rules, landmarks_dict).total

\* the local passed_count of evaluate_pose when it reaches the score
passed_count(landmarks_dict, joint_angles, rules) ==
    KneeBlock(rules, joint_angles).passed + ElbowBlock(rules, joint_angles).passed
        + HipBlock(rules, landmarks_dict).passed

\* SuryaNamaskarRuleEngine.evaluate_pose; pose_name is not read by the code
evaluate_pose(pose_name, landmarks_dict, joint_angles, rules) ==
    LET knee  == KneeBlock(rules, joint_angles)
        elbow == ElbowBlock(rules, joint_angles)
        hip   == HipBlock(rules, landmarks_dict)
    IN  IF IsRaised(knee) THEN knee
        ELSE IF IsRaised(elbow) THEN elbow
        ELSE IF IsRaised(hip) THEN hip
        ELSE [issues |-> knee.issues \o elbow.issues \o hip.issues,
              alignment_score |->
                  AlignmentScore(knee.passed + elbow.passed + hip.passed,
                                 knee.total + elbow.total + hip.total),
              passed_rules |->
                  knee.passed_rules @@ elbow.passed_rules @@ hip.passed_rules,
              failed_rules |->
                  knee.failed_rules @@ elbow.failed_rules @@ hip.failed_rules]

---------------------------------------------------------------------------
(* core/safety_engine.py *)

\* a user profile is [level |-> string, conditions |-> sequence of strings]

\* condition_name.lower().strip() of has_condition, on the strings of the model
lower_strip(condition_name) ==
    IF condition_name = " Back_Pain " THEN "back_pain" ELSE condition_name

\* UserProfileManager.get_conditions / get_level
get_conditions(user_profile) == user_profile.conditions
get_level(user_profile)      == user_profile.level

\* SafetyAdaptationEngine._load_knowledge_base; file is the file at the path:
\* [state |-> "absent"], [state |-> "corrupt"] (not JSON) or
\* [state |-> "present", json |-> its contents]
_load_knowledge_base(file) ==
    IF file.state = "absent" THEN Returned(EmptyDict)     \* except FileNotFoundError
    ELSE IF file.state = "corrupt" THEN Raised("JSONDecodeError")
    ELSE Returned(file.json)

\* level_adaptations[level]['angle_tolerance'] of _init_condition_mappings
level_adaptations ==
    [beginner |-> [angle_tolerance |-> 10],
     intermediate |-> [angle_tolerance |-> 5],
     advanced |-> [angle_tolerance |-> -5]]

\* level_adaptations.get(level, {}).get('angle_tolerance', 0)
angle_tolerance(level) ==
    Get(Get(level_adaptations, level, EmptyDict), "angle_tolerance", 0)

\* the rule keys of the model for which the test 'angle' in key is true
KeysWithAngle == {"knee_angle_min", "elbow_angle_min", "front_knee_angle_min",
                  "front_knee_angle_max", "back_knee_angle_min"}
\* the rule keys of the model for which the test 'min' in key is true
KeysWithMin == {"knee_angle_min", "elbow_angle_min", "front_knee_angle_min",
                "back_knee_angle_min", "spine_extension_min"}

\* self.knowledge_base.get(pose_name): the pose's data, None when absent
_get_pose_data(kb, pose_name) == Get(kb, pose_name, None)

\* not pose_data: None and the empty dictionary are both false
HasPoseData(pose_data) == pose_data # None /\ pose_data # EmptyDict

\* only the first condition of the profile is looked at
contraindication_first(conditions, contraindications) ==
    IF conditions # <<>> /\ Head(conditions) \in Range(contraindications)
    THEN [allowed |-> FALSE,
          reason |-> "Pose contraindicated due to " \o Head(conditions)]
    ELSE [allowed |-> TRUE, reason |-> None]

\* the loop of _check_contraindications over the remaining conditions
RECURSIVE contraindication_loop(_, _)
contraindication_loop(conditions, contraindications) ==
    IF conditions = <<>> THEN [allowed |-> TRUE, reason |-> None]
    ELSE IF Head(conditions) \in Range(contraindications)
         THEN [allowed |-> FALSE,
               reason |-> "Pose contraindicated due to " \o Head(conditions)]
         ELSE contraindication_loop(Tail(conditions), contraindications)

_check_contraindications(pose_data, user_profile) ==
    contraindication_loop(get_conditions(user_profile),
                          Get(pose_data, "contraindications", <<>>))

\* the body of the loop over adapted_rules.items()
AdaptValue(key, value, tolerance) ==
    IF IsNumber(value) /\ key \in KeysWithAngle
    THEN IF key \in KeysWithMin
         THEN [t |-> IF value.t = "float" THEN "float" ELSE "int",
               v |-> value.v - tolerance]
         ELSE [t |-> IF value.t = "float" THEN "float" ELSE "int",
               v |-> value.v + tolerance]
    ELSE value

adapt_rules(kb, pose_name, rules, user_profile) ==
    LET pose_data == _get_pose_data(kb, pose_name) IN
    IF ~HasPoseData(pose_data)
    THEN [pose_allowed |-> TRUE, adapted_rules |-> rules,
          safety_modifications |-> <<>>, risk_level |-> "low"]
    ELSE LET chk == _check_contraindications(pose_data, user_profile) IN
         IF ~chk.allowed
         THEN [pose_allowed |-> FALSE, reason |-> chk.reason,
               adapted_rules |-> EmptyDict,
               safety_modifications |-> <<chk.reason>>, risk_level |-> "high"]
         ELSE [pose_allowed |-> TRUE,
               adapted_rules |->
                   [key \in DOMAIN rules |->
                       AdaptValue(key, rules[key],
                                  angle_tolerance(get_level(user_profile)))],
               safety_modifications |-> <<>>, risk_level |-> "low"]

\* Object identity.  objs is the sequence of the dict objects that exist; an
\* object is named by its position, and two names are the same object exactly
\* when they are the same position.

\* the copy is left out: the name of the object itself
deepcopy_SameObject(objs, id) == [objects |-> objs, id |-> id]

\* deepcopy(base_rules): a new object with the contents of the object id
deepcopy(objs, id) == [objects |-> Append(objs, objs[id]), id |-> Len(objs) + 1]

\* adapt_rules on objects: base_rules is the name of the caller's dict, and
\* 'adapted_rules' of the result is the name of a dict; the loop assigns
\* adapted_rules[key] in place
adapt_rules_objects(objs, kb, pose_name, base_rules_id, user_profile) ==
    LET pose_data == _get_pose_data(kb, pose_name) IN
    IF ~HasPoseData(pose_data)
    THEN [objects |-> objs,
          result |-> [pose_allowed |-> TRUE, adapted_rules |-> base_rules_id,
                      safety_modifications |-> <<>>, risk_level |-> "low"]]
    ELSE LET chk == _check_contraindications(pose_data, user_profile) IN
         IF ~chk.allowed
         THEN [objects |-> Append(objs, EmptyDict),
               result |-> [pose_allowed |-> FALSE, reason |-> chk.reason,
                           adapted_rules |-> Len(objs) + 1,
                           safety_modifications |-> <<chk.reason>>,
                           risk_level |-> "high"]]
         ELSE LET copy == deepcopy(objs, base_rules_id)
                  tolerance == angle_tolerance(get_level(user_profile))
              IN  [objects |->
                       [copy.objects EXCEPT ![copy.id] =
                           [key \in DOMAIN @ |-> AdaptValue(key, @[key], tolerance)]],
                   result |-> [pose_allowed |-> TRUE, adapted_rules |-> copy.id,
                               safety_modifications |-> <<>>, risk_level |-> "low"]]

---------------------------------------------------------------------------
(* core/correction_engine.py *)

\* the loop of generate_corrections over the remaining issues
RECURSIVE corrections_loop(_, _)
corrections_loop(issues, correction_library) ==
    IF issues = <<>> THEN <<>>
    ELSE IF Head(issues) \in DOMAIN correction_library
         THEN <<correction_library[Head(issues)]>>
              \o corrections_loop(Tail(issues), correction_library)
         ELSE corrections_loop(Tail(issues), correction_library)

generate_corrections(kb, pose_name, issues) ==
    LET pose_knowledge == Get(kb, pose_name, None) IN
    IF pose_knowledge = None \/ pose_knowledge = EmptyDict
    THEN [pose_name |-> pose_name, biomechanical_issues |-> issues,
          verbal_corrections |-> <<"Pose not found in knowledge base.">>,
          priority_level |-> "low"]
    ELSE IF issues = <<>>
    THEN [pose_name |-> pose_name, biomechanical_issues |-> <<>>,
          verbal_corrections |-> <<"Excellent alignment. Maintain steady breathing.">>,
          priority_level |-> "low"]
    ELSE [pose_name |-> pose_name, biomechanical_issues |-> issues,
          verbal_corrections |->
              corrections_loop(issues, Get(pose_knowledge, "correction_library", EmptyDict)),
          priority_level |-> IF Len(issues) > 2 THEN "medium" ELSE "low"]

---------------------------------------------------------------------------
(* app/session_manager.py *)

\* an error response that still reports the pose as detected
_error_response_Detected(message) ==
    [pose_name |-> "unknown", pose_detected |-> TRUE, alignment_score |-> 0,
     issues |-> <<"evaluation_error">>, coaching_sentence |-> message,
     risk_level |-> "medium"]

_error_response(message) ==
    [pose_name |-> "unknown", pose_detected |-> FALSE, alignment_score |-> 0,
     issues |-> <<"evaluation_error">>, coaching_sentence |-> message,
     risk_level |-> "medium"]

\* no except clause: the exception leaves evaluate_pose
ExceptHandler_Propagate(e) == e

\* except Exception as e: return self._error_response(...)
ExceptHandler(e) == _error_response("Internal evaluation error")

\* the gate left out: every pose goes on to scoring
PoseAllowed_NoGate(safety) == TRUE

\* if not safety_result.get('pose_allowed', True): return {...}
PoseAllowed(safety) == Get(safety, "pose_allowed", TRUE)

\* the answer to a contraindicated pose with a risk level of its own
ContraindicatedResponse_OwnRisk(pose_name, safety) ==
    [pose_name |-> pose_name, pose_detected |-> TRUE, alignment_score |-> 0,
     issues |-> <<"pose_contraindicated">>,
     coaching_sentence |-> Get(safety, "reason", "This pose is not recommended."),
     risk_level |-> "medium"]

\* the dictionary returned when the pose is not allowed (lines 79-87)
ContraindicatedResponse(pose_name, safety) ==
    [pose_name |-> pose_name, pose_detected |-> TRUE, alignment_score |-> 0,
     issues |-> <<"pose_contraindicated">>,
     coaching_sentence |-> Get(safety, "reason", "This pose is not recommended."),
     risk_level |-> Get(safety, "risk_level", "high")]

\* " ".join(verbal_corrections[:2])
JoinFirstTwo(verbal_corrections) ==
    IF Len(verbal_corrections) = 1 THEN verbal_corrections[1]
    ELSE verbal_corrections[1] \o " " \o verbal_corrections[2]

_fallback_coaching(kb, pose_name, issues) ==
    IF issues = <<>> THEN "Excellent alignment. Maintain steady breathing."
    ELSE LET verbal_corrections ==
                 Get(generate_corrections(kb, pose_name, issues),
                     "verbal_corrections", <<>>)
         IN  IF verbal_corrections # <<>> THEN JoinFirstTwo(verbal_corrections)
             ELSE "Focus on your alignment and breathing."

\* LLMCoachingEngine.generate_coaching: the affirmation without issues, else
\* the sentence of the completion (or of its own fallback); outcome "raise"
\* is an exception leaving generate_coaching
generate_coaching(outcome, pose_name, issues) ==
    IF outcome = "raise" THEN Raised("Exception")
    ELSE IF issues = <<>>
         THEN Returned("Excellent alignment. Maintain steady breathing.")
         ELSE Returned("<sentence of the language model>")

\* when generate_coaching raises, a fixed sentence is returned
_generate_coaching_sentence_Generic(llm, outcome, kb, pose_name, issues) ==
    IF llm
    THEN LET sentence == generate_coaching(outcome, pose_name, issues) IN
         IF IsRaised(sentence) THEN "Focus on your alignment and breathing."
         ELSE sentence.ret
    ELSE _fallback_coaching(kb, pose_name, issues)

_generate_coaching_sentence(llm, outcome, kb, pose_name, issues) ==
    IF llm
    THEN LET sentence == generate_coaching(outcome, pose_name, issues) IN
         IF IsRaised(sentence) THEN _fallback_coaching(kb, pose_name, issues)
         ELSE sentence.ret
    ELSE _fallback_coaching(kb, pose_name, issues)

---------------------------------------------------------------------------
(* core/progress_tracker.py *)

\* A tracker is the record of its attributes.  A frame is
\* [pose_name, alignment_score, joint_angles]: the fields of FrameMetrics that
\* update reads; scores are in hundredths, angles are plain whole degrees.

\* deque(maxlen=1000) of frame_metrics_history, deque(maxlen=24) of fatigue_window
frame_metrics_maxlen == 1000
fatigue_window_maxlen == 24

\* YogaProgressTracker.__init__: no session, every buffer empty
NewTracker ==
    [session_id |-> None, session_start_time |-> None,
     frame_metrics_history |-> <<>>, alignment_scores |-> <<>>,
     left_angles_history |-> <<>>, right_angles_history |-> <<>>,
     spine_extensions |-> <<>>, poses_performed |-> {},
     fatigue_window |-> <<>>, fatigue_detected |-> FALSE]

\* a deque that never evicts
DequeAppend_KeepsAll(d, x, maxlen) == Append(d, x)

\* deque.append on a deque with maxlen: the oldest entry leaves a full deque
DequeAppend(d, x, maxlen) ==
    IF Len(d) >= maxlen THEN Append(Tail(d), x) ELSE Append(d, x)

\* s[-n:]
LastN(s, n) == IF Len(s) <= n THEN s ELSE SubSeq(s, Len(s) - n + 1, Len(s))

RECURSIVE Sum(_)
Sum(s) == IF s = <<>> THEN 0 ELSE Head(s) + Sum(Tail(s))

\* f"session_{int(time.time())}": the string is kept as its number
SessionId(now) == [t |-> "str", v |-> now]

\* the window and the flag survive the start of a session
start_session_KeepsFatigue(tr, now) ==
    [tr EXCEPT !.session_id = SessionId(now),
               !.session_start_time = PyFloat(now),
               !.frame_metrics_history = <<>>,
               !.alignment_scores = <<>>,
               !.left_angles_history = <<>>,
               !.right_angles_history = <<>>,
               !.spine_extensions = <<>>,
               !.poses_performed = {}]

\* YogaProgressTracker.start_session at clock reading now
start_session(tr, now) ==
    [tr EXCEPT !.session_id = SessionId(now),
               !.session_start_time = PyFloat(now),
               !.frame_metrics_history = <<>>,
               !.alignment_scores = <<>>,
               !.left_angles_history = <<>>,
               !.right_angles_history = <<>>,
               !.spine_extensions = <<>>,
               !.poses_performed = {},
               !.fatigue_window = <<>>,
               !.fatigue_detected = FALSE]

\* the angle keys of the model for which 'left' in key, 'right' in key is true
KeysWithLeft  == {"left_knee_angle", "left_elbow_angle", "left_hip_angle"}
KeysWithRight == {"right_knee_angle", "right_elbow_angle", "right_hip_angle"}

\* the dict of the entries of d whose key is in keys
Restrict(d, keys) == [k \in DOMAIN d \cap keys |-> d[k]]

\* _track_angles: left keys first (if), right keys otherwise (elif)
_track_angles(tr, joint_angles) ==
    LET left_angles  == Restrict(joint_angles, KeysWithLeft)
        right_angles == Restrict(joint_angles, KeysWithRight \ KeysWithLeft)
    IN  [tr EXCEPT
            !.left_angles_history =
                IF left_angles # EmptyDict THEN Append(@, left_angles) ELSE @,
            !.right_angles_history =
                IF right_angles # EmptyDict THEN Append(@, right_angles) ELSE @,
            !.spine_extensions =
                IF "spine_angle" \in DOMAIN joint_angles
                THEN Append(@, 180 - joint_angles["spine_angle"]) ELSE @]

\* any drop from the first half to the second counts
FatigueTrend_AnyDrop(scores) ==
    LET first  == SubSeq(scores, 1, 12)
        second == SubSeq(scores, 13, Len(scores))
    IN  Sum(second) * Len(first) < Sum(first) * Len(second)

\* first_half > 70 and second_half < first_half - 15, the means compared as
\* fractions (scores in hundredths)
FatigueTrend(scores) ==
    LET first  == SubSeq(scores, 1, 12)
        second == SubSeq(scores, 13, Len(scores))
    IN  /\ Sum(first) > 7000 * Len(first)
        /\ Sum(second) * Len(first) < (Sum(first) - 1500 * Len(first)) * Len(second)

\* the flag follows the window: it clears when the trend is gone
_update_fatigue_detection_AutoClear(tr, alignment_score) ==
    LET window == DequeAppend(tr.fatigue_window, alignment_score, fatigue_window_maxlen)
    IN  [tr EXCEPT !.fatigue_window = window,
                   !.fatigue_detected = Len(window) >= 24 /\ FatigueTrend(window)]

_update_fatigue_detection(tr, alignment_score) ==
    LET window == DequeAppend(tr.fatigue_window, alignment_score, fatigue_window_maxlen)
    IN  [tr EXCEPT !.fatigue_window = window,
                   !.fatigue_detected =
                       IF Len(window) >= 24 /\ FatigueTrend(window) THEN TRUE ELSE @]

\* YogaProgressTracker.update
update(tr, frame_metrics) ==
    LET appended ==
            [tr EXCEPT
                !.frame_metrics_history =
                    DequeAppend(@, frame_metrics, frame_metrics_maxlen),
                !.alignment_scores = Append(@, frame_metrics.alignment_score),
                !.poses_performed = @ \cup {frame_metrics.pose_name}]
    IN  _update_fatigue_detection(_track_angles(appended, frame_metrics.joint_angles),
                                  frame_metrics.alignment_score)

\* the values of key in the frames of angles_list that have the key
RECURSIVE ValuesOf(_, _)
ValuesOf(angles_list, key) ==
    IF angles_list = <<>> THEN <<>>
    ELSE IF key \in DOMAIN Head(angles_list)
         THEN <<Head(angles_list)[key]>> \o ValuesOf(Tail(angles_list), key)
         ELSE ValuesOf(Tail(angles_list), key)

RECURSIVE SumOfSquares(_)
SumOfSquares(s) == IF s = <<>> THEN 0 ELSE Head(s) * Head(s) + SumOfSquares(Tail(s))

\* np.var(values) as the fraction num / den
Variance(values) ==
    [num |-> Len(values) * SumOfSquares(values) - Sum(values) * Sum(values),
     den |-> Len(values) * Len(values)]

\* the variances compute_stability collects from one list: one for every key
\* with at least 10 values
ListVariances(angles_list) ==
    LET angle_keys == UNION {DOMAIN angles_list[i] : i \in DOMAIN angles_list}
    IN  {[key |-> key, var |-> Variance(ValuesOf(angles_list, key))] :
            key \in {k \in angle_keys : Len(ValuesOf(angles_list, k)) >= 10}}

\* the sum of the fractions of a set of variances, as a fraction
RECURSIVE SumFractions(_)
SumFractions(S) ==
    IF S = {} THEN [num |-> 0, den |-> 1]
    ELSE LET x    == CHOOSE y \in S : TRUE
             rest == SumFractions(S \ {x})
         IN  [num |-> x.var.num * rest.den + rest.num * x.var.den,
              den |-> x.var.den * rest.den]

\* round(num / den, 2) in hundredths for num >= 0, ties to even
RoundHundredths(num, den) ==
    LET n == num * 100
        q == n \div den
        r == n % den
    IN  IF 2 * r > den THEN q + 1
        ELSE IF 2 * r < den THEN q
        ELSE IF q % 2 = 0 THEN q ELSE q + 1

\* YogaProgressTracker.compute_stability, in hundredths
compute_stability(tr) ==
    IF Len(tr.left_angles_history) < 10 THEN 0
    ELSE LET all_variances ==
                 ListVariances(LastN(tr.left_angles_history, 50))
                     \cup ListVariances(LastN(tr.right_angles_history, 50))
             total == SumFractions(all_variances)
             count == Cardinality(all_variances)
         IN  IF all_variances = {} THEN 0
             \* max(0, 100 - avg_variance) with avg_variance = total / count
             ELSE IF 100 * total.den * count <= total.num THEN 0
             ELSE RoundHundredths(100 * total.den * count - total.num,
                                  total.den * count)

---------------------------------------------------------------------------
(* app/dependency_container.py *)

\* the engines whose property raises while they are None, and all five
RequiredEngines ==
    {"physics_engine", "rule_engine", "safety_engine", "correction_engine"}
EngineNames == RequiredEngines \cup {"llm_coaching_engine"}

\* the engine object behind a property
Engine(name) == [engine |-> name]

\* DependencyContainer.__init__: every _x_engine is None
NoEngines == [name \in EngineNames |-> None]

\* the assignments self._x_engine = X(...) for the names given
Constructed(e, names) ==
    [name \in EngineNames |-> IF name \in names THEN Engine(name) ELSE e[name]]

\* a property that hands out whatever the attribute holds
EngineProperty_Unchecked(e, name) == Returned(e[name])

\* the properties: the four required engines raise while None, the language
\* model engine is Optional and is returned as it is
EngineProperty(e, name) ==
    IF name \in RequiredEngines /\ e[name] = None
    THEN Raised("RuntimeError")
    ELSE Returned(e[name])

---------------------------------------------------------------------------
(* ai/voice_feedback_manager.py *)

\* Times are whole seconds.  A manager is the record of its attributes, with
\* the clock time.time() reads and, for the TTS engine, the time at which
\* each sentence was last played with success.

\* the defaults of correction_cooldown and praise_cooldown
correction_cooldown == 5
praise_cooldown == 10

\* a str value
Str(s) == [t |-> "str", s |-> s]

\* VoiceFeedbackManager.__init__
NewVoice ==
    [last_spoken_message |-> None, last_spoken_timestamp |-> 0,
     correction_cooldown |-> correction_cooldown,
     praise_cooldown |-> praise_cooldown,
     clock |-> 0, played_at |-> EmptyDict]

\* the sentences of the model for which sentence.strip() is empty, and those
\* in which a praise keyword occurs once in lower case
BlankSentences  == {"", "  "}
PraiseSentences == {"Excellent alignment. Maintain steady breathing."}

\* _is_praise_message
_is_praise_message(sentence) == sentence \in PraiseSentences

\* the same sentence waits like any other: one second
should_speak_OneSecond(v, sentence, alignment_score, current_time) ==
    IF sentence \in BlankSentences THEN FALSE
    ELSE IF v.last_spoken_message \in {None, Str("")} THEN TRUE
    ELSE LET time_since_last == current_time - v.last_spoken_timestamp IN
         IF _is_praise_message(sentence)
         THEN time_since_last >= v.praise_cooldown
         ELSE time_since_last >= 1

\* should_speak with time.time() reading current_time
should_speak(v, sentence, alignment_score, current_time) ==
    IF sentence \in BlankSentences THEN FALSE
    ELSE IF v.last_spoken_message \in {None, Str("")} THEN TRUE
    ELSE LET is_praise       == _is_praise_message(sentence)
             is_same_message == Str(sentence) = v.last_spoken_message
             time_since_last == current_time - v.last_spoken_timestamp
         IN  IF is_praise
             THEN IF Truthy(alignment_score) /\ alignment_score.v > 9000
                  THEN time_since_last >= v.praise_cooldown
                  ELSE time_since_last >= v.praise_cooldown
             ELSE IF is_same_message
                  THEN time_since_last >= v.correction_cooldown
                  ELSE time_since_last >= 1

\* the assignments after a play that returned True at time current_time
Spoken(v, sentence, current_time) ==
    [v EXCEPT !.last_spoken_message = Str(sentence),
              !.last_spoken_timestamp = current_time,
              !.played_at = [k \in DOMAIN @ \cup {sentence} |->
                                IF k = sentence THEN current_time ELSE @[k]]]

\* VoiceFeedbackManager.reset
reset(v) == [v EXCEPT !.last_spoken_message = None, !.last_spoken_timestamp = 0]

---------------------------------------------------------------------------
(* Inputs *)

\* longest conditions list of a profile
MaxConditions == 2

\* longest issues list handed to the fallback coaching
MaxIssues == 3

\* most dict objects a direct caller holds at a time: the rules of a pose and
\* the adapted rules of the calls made with them
MaxObjects == 3

\* frames fed to a tracker in one session, and how often the score changes
\* from one frame to the next, when the fatigue window is exercised
MaxFrames == 25
MaxScoreChanges == 2

\* frames fed to a tracker in one session, and how often the joint angles
\* change from one frame to the next, when the angle histories are exercised
MaxAngleFrames == 11
MaxAngleChanges == 2

\* frames of a session that fills the fatigue window twice
MaxStickyFrames == 48

\* frames of one long session: one more than the frame history holds
MaxHistoryFrames == 1001

\* last reading of the clock of a voice feedback manager, in seconds
MaxClock == 5

Levels == {"beginner", "intermediate", "advanced", "expert"}
ConditionCodes == {"back_pain", "high_bp"}
\* conditions is a list of any strings: a variant of the first code in another
\* case and with blanks around it
ConditionVariants == {" Back_Pain "}

RECURSIVE SeqsUpTo(_, _)
SeqsUpTo(S, n) ==
    IF n = 0 THEN {<<>>}
    ELSE LET shorter == SeqsUpTo(S, n - 1) IN
         shorter \cup {Append(q, x) : q \in shorter, x \in S}

UserProfiles ==
    {[level |-> l, conditions |-> c] :
        l \in Levels, c \in SeqsUpTo(ConditionCodes, MaxConditions)}

\* the profiles handed to adapt_rules directly: the variants are among the codes
DirectProfiles ==
    {[level |-> l, conditions |-> c] :
        l \in Levels, c \in SeqsUpTo(ConditionCodes \cup ConditionVariants, MaxConditions)}

\* the poses of rules_map, a pose of the sequence without default rules and
\* a pose that is in neither
PoseNames == DOMAIN rules_map \cup {"hasta_padasana", "tree_pose"}

\* contents of knowledge/safety_rules.json: the file is absent ({}), or holds
\* data for some poses
SafetyKB ==
    [parvatasana |-> [contraindications |-> <<"high_bp", "recent_spinal_surgery">>],
     bhujangasana |-> [contraindications |-> <<"back_pain">>],
     hasta_uttanasana |-> [contraindications |-> <<>>],
     ashwa_sanchalanasana |-> [benefits |-> <<"hip_opening">>],
     hasta_padasana |-> EmptyDict]
SafetyRulesFiles ==
    {[state |-> "absent"], [state |-> "corrupt"], [state |-> "present", json |-> SafetyKB]}

\* the 'asana' names of the sequence in knowledge/surya_namaskar.json
FullSequence == <<"pranamasana", "hasta_uttanasana", "hasta_padasana",
                  "ashwa_sanchalanasana", "parvatasana", "bhujangasana">>
RuleSequences == {FullSequence, <<>>}

\* contents of knowledge/poses_corrections.json
CorrectionsKB ==
    [parvatasana |->
        [correction_library |->
            [knees_bent |-> "Straighten your knees gently.",
             hips_low |-> "Lift your hips higher."]],
     bhujangasana |->
        [correction_library |-> [elbows_bent |-> "Extend your elbows."]],
     hasta_uttanasana |-> [cues |-> <<"reach up">>]]

\* issue codes: the three the rule engine reports and one no library lists
IssueCodes == {"knees_bent", "elbows_bent", "hips_low", "spine_misaligned"}
IssueLists == SeqsUpTo(IssueCodes, MaxIssues)

\* request.angles.dict(): the eight fields of JointAngles
JointAngles(lk, rk, le, re, spine, shoulder) ==
    [left_knee_angle |-> lk, right_knee_angle |-> rk,
     left_elbow_angle |-> le, right_elbow_angle |-> re,
     left_hip_angle |-> PyInt(85), right_hip_angle |-> PyInt(87),
     spine_angle |-> spine, shoulder_angle |-> shoulder]

KneePairs  == {<<178, 178>>, <<150, 178>>, <<167, 167>>}
ElbowPairs == {<<178, 178>>, <<178, 150>>}

RequestAngles ==
    {JointAngles(PyInt(k[1]), PyInt(k[2]), PyInt(e[1]), PyInt(e[2]),
                 PyInt(165), PyInt(90)) : k \in KneePairs, e \in ElbowPairs}
    \cup {JointAngles(PyInt(181), PyInt(178), PyInt(178), PyInt(178), PyInt(165), PyInt(90)),
          JointAngles(PyInt(178), PyInt(178), PyInt(178), PyInt(178), PyInt(-1), PyInt(90)),
          JointAngles(PyInt(178), PyInt(178), PyInt(178), PyInt(178), PyInt(165), None),
          JointAngles(PyInt(178), PyInt(178), PyInt(178), PyInt(178), PyInt(181), None),
          [left_knee_angle |-> PyInt(178), right_knee_angle |-> PyInt(178)]}

\* request.landmarks.dict(), reduced to the y coordinate of the points read
RequestLandmarks ==
    {[left_hip |-> h, right_hip |-> h, left_shoulder |-> 40, right_shoulder |-> 40] :
        h \in {30, 60}}

---------------------------------------------------------------------------
(* State machine: the container and the pipeline of one request *)

NoRequest ==
    [pose_name |-> "", angles |-> EmptyDict, landmarks |-> EmptyDict,
     user_profile |-> [level |-> "", conditions |-> <<>>]]

Idle ==
    /\ pc = "idle"
    /\ request = NoRequest
    /\ base_rules = EmptyDict
    /\ safety_result = EmptyDict
    /\ evaluation = EmptyDict
    /\ result = EmptyDict
    /\ calls = <<>>

NoDirectCall ==
    /\ call = [fn |-> "none"]
    /\ ret = EmptyDict

\* DependencyContainer.__init__: no engine yet
Init ==
    /\ safety_rules_file \in SafetyRulesFiles
    /\ startup = "starting"
    /\ objects = <<>>
    /\ tracker = NewTracker
    /\ initialized = FALSE
    /\ engines = NoEngines
    /\ voice = NewVoice
    /\ knowledge_base = EmptyDict
    /\ sequence = <<>>
    /\ corrections = EmptyDict
    /\ llm_enabled = FALSE
    /\ Idle
    /\ NoDirectCall

\* DependencyContainer.initialize, called once by lifespan before serving
\* when a constructor raises, initialize does not complete and lifespan
\* re-raises: the application does not start
Initialize ==
    /\ startup = "starting"
    /\ ~initialized
    /\ sequence' \in RuleSequences                       \* line 31
    /\ LET kb == _load_knowledge_base(safety_rules_file)  \* line 35
       IN  IF IsRaised(kb)
           THEN /\ startup' = "failed"
                /\ engines' = Constructed(engines, {"physics_engine", "rule_engine"})
                /\ UNCHANGED <<initialized, knowledge_base, corrections, llm_enabled>>
           ELSE /\ knowledge_base' = kb.ret
                /\ corrections' = CorrectionsKB          \* line 39
                /\ llm_enabled' \in BOOLEAN               \* line 43
                /\ engines' =
                      Constructed(engines,
                          RequiredEngines \cup (IF llm_enabled' THEN {"llm_coaching_engine"}
                                                ELSE {}))
                /\ initialized' = TRUE
                /\ startup' = "serving"
    /\ UNCHANGED <<safety_rules_file, pipelineVars, directVars, stateVars>>

\* the endpoint reads the engines of the container (main.py 166-171) and
\* a caller enters StatelessSessionManager.evaluate_pose
Request ==
    /\ startup = "serving"
    /\ initialized
    /\ \A name \in EngineNames : ~IsRaised(EngineProperty(engines, name))
    /\ pc = "idle"
    /\ NoDirectCall
    /\ \E pose_name \in PoseNames, angles \in RequestAngles,
          landmarks \in RequestLandmarks, user_profile \in UserProfiles :
            request' = [pose_name |-> pose_name, angles |-> angles,
                        landmarks |-> landmarks, user_profile |-> user_profile]
    /\ pc' = "validate"
    /\ base_rules' = EmptyDict
    /\ safety_result' = EmptyDict
    /\ evaluation' = EmptyDict
    /\ result' = EmptyDict
    /\ calls' = <<>>
    /\ UNCHANGED <<containerVars, directVars, stateVars>>

\* session_manager.py 53-59
ValidateAngles ==
    /\ pc = "validate"
    /\ calls' = Append(calls, "validate_angles")
    /\ LET valid == validate_angles(request.angles) IN
       IF IsRaised(valid)
       THEN result' = ExceptHandler(valid) /\ pc' = "done"
       ELSE IF ~valid.ret
       THEN result' = _error_response("Invalid joint angles") /\ pc' = "done"
       ELSE result' = result /\ pc' = "get_rules"
    /\ UNCHANGED <<request, base_rules, safety_result, evaluation>>
    /\ UNCHANGED <<containerVars, directVars, stateVars>>

\* session_manager.py 61-66
GetRules ==
    /\ pc = "get_rules"
    /\ calls' = Append(calls, "get_pose_rules")
    /\ base_rules' = get_pose_rules(sequence, request.pose_name)
    /\ IF base_rules' = EmptyDict
       THEN /\ result' = _error_response("Pose '" \o request.pose_name \o "' not found")
            /\ pc' = "done"
       ELSE result' = result /\ pc' = "adapt"
    /\ UNCHANGED <<request, safety_result, evaluation>>
    /\ UNCHANGED <<containerVars, directVars, stateVars>>

\* session_manager.py 68-87
AdaptRules ==
    /\ pc = "adapt"
    /\ calls' = Append(calls, "adapt_rules")
    /\ safety_result' = adapt_rules(knowledge_base, request.pose_name, base_rules,
                                    request.user_profile)
    /\ IF ~PoseAllowed(safety_result')
       THEN /\ result' = ContraindicatedResponse(request.pose_name, safety_result')
            /\ pc' = "done"
       ELSE result' = result /\ pc' = "evaluate"
    /\ UNCHANGED <<request, base_rules, evaluation>>
    /\ UNCHANGED <<containerVars, directVars, stateVars>>

\* session_manager.py 89-96
EvaluateAlignment ==
    /\ pc = "evaluate"
    /\ calls' = Append(calls, "evaluate_pose")
    /\ evaluation' = evaluate_pose(request.pose_name, request.landmarks, request.angles,
                                   Get(safety_result, "adapted_rules", base_rules))
    /\ IF IsRaised(evaluation')
       THEN result' = ExceptHandler(evaluation') /\ pc' = "done"
       ELSE result' = result /\ pc' = "coach"
    /\ UNCHANGED <<request, base_rules, safety_result>>
    /\ UNCHANGED <<containerVars, directVars, stateVars>>

\* session_manager.py 98-111
Coach ==
    /\ pc = "coach"
    /\ \E outcome \in {"sentence", "raise"} :
          /\ calls' = calls \o <<"_generate_coaching_sentence">>
                        \o (IF llm_enabled THEN <<"generate_coaching">> ELSE <<>>)
                        \o (IF ~llm_enabled \/ outcome = "raise"
                            THEN <<"_fallback_coaching">> ELSE <<>>)
          /\ result' =
                [pose_name |-> request.pose_name, pose_detected |-> TRUE,
                 alignment_score |-> Get(evaluation, "alignment_score", 0),
                 issues |-> Get(evaluation, "issues", <<>>),
                 coaching_sentence |->
                     _generate_coaching_sentence(llm_enabled, outcome, corrections,
                         request.pose_name, Get(evaluation, "issues", <<>>)),
                 risk_level |-> Get(safety_result, "risk_level", "low")]
    /\ pc' = "done"
    /\ UNCHANGED <<request, base_rules, safety_result, evaluation>>
    /\ UNCHANGED <<containerVars, directVars, stateVars>>

\* the caller has the result; the locals of the call are gone
Return ==
    /\ pc = "done"
    /\ pc' = "idle"
    /\ request' = NoRequest
    /\ base_rules' = EmptyDict
    /\ safety_result' = EmptyDict
    /\ evaluation' = EmptyDict
    /\ result' = EmptyDict
    /\ calls' = <<>>
    /\ UNCHANGED <<containerVars, directVars, stateVars>>

Next ==
    \/ Initialize
    \/ Request
    \/ ValidateAngles
    \/ GetRules
    \/ AdaptRules
    \/ EvaluateAlignment
    \/ Coach
    \/ Return

Spec == Init /\ [][Next]_vars

---------------------------------------------------------------------------
(* Direct calls of the engines' methods, as the unit tests make them *)

\* all dictionaries with keys among Keys and, at key k, a value of Choices[k]
DictsOver(Keys, Choices) ==
    UNION {{d \in [S -> UNION {Choices[k] : k \in S}] :
                \A k \in S : d[k] \in Choices[k]} : S \in SUBSET Keys}

\* angle maps handed to validate_angles
ValidateKeys   == {"left_knee_angle", "spine_angle", "shoulder_angle"}
ValidateValues == {PyInt(-1), PyInt(0), PyInt(90), PyInt(180), PyInt(181), None}
ValidateAngleMaps == DictsOver(ValidateKeys, [k \in ValidateKeys |-> ValidateValues])

\* rule sets handed to evaluate_pose: those of rules_map and all over three keys
EvalRuleChoices ==
    [knee_angle_min |-> {PyInt(170), PyInt(160)},
     elbow_angle_min |-> {PyInt(170)},
     hip_height_above_shoulder |-> {PyBool(TRUE), PyBool(FALSE)}]
EvalRuleSets ==
    DictsOver(DOMAIN EvalRuleChoices, EvalRuleChoices)
    \cup {rules_map[p] : p \in DOMAIN rules_map}

\* joint angles handed to evaluate_pose: any of the four keys may be absent
EvalAngleKeys == {"left_knee_angle", "right_knee_angle",
                  "left_elbow_angle", "right_elbow_angle"}
EvalAngleValues == {PyInt(165), PyInt(170), PyInt(175)}
EvalAngleMaps == DictsOver(EvalAngleKeys, [k \in EvalAngleKeys |-> EvalAngleValues])

\* landmarks handed to evaluate_pose: none (as in test_evaluate_pose), or the
\* hips above, level with and below the shoulders
EvalLandmarks ==
    {EmptyDict}
    \cup {[left_hip |-> h, right_hip |-> h, left_shoulder |-> 40, right_shoulder |-> 40] :
            h \in {30, 40, 60}}

\* rule sets handed to adapt_rules
AdaptRuleChoices ==
    [knee_angle_min |-> {PyInt(170)},
     front_knee_angle_max |-> {PyInt(110), PyFloat(110)},
     spine_extension_min |-> {PyInt(10)},
     hip_height_above_shoulder |-> {PyBool(TRUE)}]
AdaptRuleSets ==
    DictsOver(DOMAIN AdaptRuleChoices, AdaptRuleChoices)
    \cup {rules_map[p] : p \in DOMAIN rules_map}
    \cup {[knee_angle_min |-> PyInt(170), elbow_angle_min |-> PyInt(170)]}

\* YogaPhysicsEngine()
InitPhysics ==
    /\ safety_rules_file = [state |-> "absent"]
    /\ startup = "starting"
    /\ objects = <<>>
    /\ tracker = NewTracker
    /\ initialized = FALSE
    /\ engines = NoEngines
    /\ voice = NewVoice
    /\ knowledge_base = EmptyDict
    /\ sequence = <<>>
    /\ corrections = EmptyDict
    /\ llm_enabled = FALSE
    /\ Idle
    /\ NoDirectCall

\* SuryaNamaskarRuleEngine(knowledge_base_path)
InitRule ==
    /\ safety_rules_file = [state |-> "absent"]
    /\ startup = "starting"
    /\ objects = <<>>
    /\ tracker = NewTracker
    /\ initialized = FALSE
    /\ engines = NoEngines
    /\ voice = NewVoice
    /\ knowledge_base = EmptyDict
    /\ sequence \in RuleSequences
    /\ corrections = EmptyDict
    /\ llm_enabled = FALSE
    /\ Idle
    /\ NoDirectCall

\* SafetyAdaptationEngine(knowledge_base_path)
InitSafety ==
    /\ safety_rules_file \in {f \in SafetyRulesFiles : f.state # "corrupt"}
    /\ startup = "starting"
    /\ objects = <<>>
    /\ tracker = NewTracker
    /\ initialized = FALSE
    /\ engines = NoEngines
    /\ voice = NewVoice
    /\ knowledge_base = _load_knowledge_base(safety_rules_file).ret
    /\ sequence = <<>>
    /\ corrections = EmptyDict
    /\ llm_enabled = FALSE
    /\ Idle
    /\ NoDirectCall

CallValidateAngles ==
    /\ NoDirectCall
    /\ \E angles \in ValidateAngleMaps :
          /\ call' = [fn |-> "validate_angles", angles |-> angles]
          /\ ret' = validate_angles(angles)
    /\ UNCHANGED <<containerVars, pipelineVars, stateVars>>

CallGetPoseRules ==
    /\ NoDirectCall
    /\ \E pose_name \in PoseNames :
          /\ call' = [fn |-> "get_pose_rules", pose_name |-> pose_name]
          /\ ret' = get_pose_rules(sequence, pose_name)
    /\ UNCHANGED <<containerVars, pipelineVars, stateVars>>

CallEvaluatePose ==
    /\ NoDirectCall
    /\ \E rules \in EvalRuleSets, joint_angles \in EvalAngleMaps,
          landmarks_dict \in EvalLandmarks :
          /\ call' = [fn |-> "evaluate_pose", pose_name |-> "parvatasana",
                      landmarks_dict |-> landmarks_dict,
                      joint_angles |-> joint_angles, rules |-> rules]
          /\ ret' = evaluate_pose("parvatasana", landmarks_dict, joint_angles, rules)
    /\ UNCHANGED <<containerVars, pipelineVars, stateVars>>

CallAdaptRules ==
    /\ NoDirectCall
    /\ \E pose_name \in PoseNames, rules \in AdaptRuleSets,
          user_profile \in DirectProfiles :
          /\ call' = [fn |-> "adapt_rules", pose_name |-> pose_name,
                      base_rules |-> rules, user_profile |-> user_profile]
          /\ ret' = adapt_rules(knowledge_base, pose_name, rules, user_profile)
    /\ UNCHANGED <<containerVars, pipelineVars, stateVars>>

\* the direct call is over: its arguments and its result are dropped
CallEnds ==
    /\ ~NoDirectCall
    /\ call' = [fn |-> "none"]
    /\ ret' = EmptyDict
    /\ UNCHANGED <<containerVars, pipelineVars, stateVars>>

NextPhysics == CallValidateAngles \/ CallEnds
NextRule    == CallGetPoseRules \/ CallEvaluatePose \/ CallEnds
NextSafety  == CallAdaptRules \/ CallEnds

SpecPhysics == InitPhysics /\ [][NextPhysics]_vars
SpecRule    == InitRule /\ [][NextRule]_vars
SpecSafety  == InitSafety /\ [][NextSafety]_vars

---------------------------------------------------------------------------
(* Direct calls on dict objects: rules = get_pose_rules(pose), then
   adapt_rules(pose, rules, profile) for one profile after another *)

\* the engines of a caller that holds no dict yet
InitObjects ==
    /\ safety_rules_file \in {f \in SafetyRulesFiles : f.state # "corrupt"}
    /\ startup = "starting"
    /\ objects = <<>>
    /\ tracker = NewTracker
    /\ initialized = FALSE
    /\ engines = NoEngines
    /\ voice = NewVoice
    /\ knowledge_base = _load_knowledge_base(safety_rules_file).ret
    /\ sequence = FullSequence
    /\ corrections = EmptyDict
    /\ llm_enabled = FALSE
    /\ Idle
    /\ NoDirectCall

\* rules = rule_engine.get_pose_rules(pose_name): rules_map is built anew by
\* every call, so the dict returned is a new object
CallGetPoseRulesObject ==
    /\ NoDirectCall
    /\ objects = <<>>
    /\ \E pose_name \in PoseNames :
          /\ get_pose_rules(sequence, pose_name) # EmptyDict
          /\ objects' = <<get_pose_rules(sequence, pose_name)>>
          /\ call' = [fn |-> "get_pose_rules", pose_name |-> pose_name]
          /\ ret' = Returned(1)
    /\ UNCHANGED <<containerVars, pipelineVars, tracker, voice>>

\* safety_engine.adapt_rules(pose_name, rules, profile) with the dict that
\* get_pose_rules returned, as the session manager calls it
CallAdaptRulesObject ==
    /\ call.fn \in {"get_pose_rules", "adapt_rules"}
    /\ objects # <<>>
    /\ Len(objects) < MaxObjects
    /\ \E user_profile \in DirectProfiles :
          LET done == adapt_rules_objects(objects, knowledge_base, call.pose_name,
                                          1, user_profile)
          IN  /\ objects' = done.objects
              /\ call' = [fn |-> "adapt_rules", pose_name |-> call.pose_name,
                          base_rules |-> 1, user_profile |-> user_profile]
              /\ ret' = done.result
    /\ UNCHANGED <<containerVars, pipelineVars, tracker, voice>>

\* the caller drops its dicts
ObjectsDropped ==
    /\ objects # <<>>
    /\ objects' = <<>>
    /\ call' = [fn |-> "none"]
    /\ ret' = EmptyDict
    /\ UNCHANGED <<containerVars, pipelineVars, tracker, voice>>

NextObjects == CallGetPoseRulesObject \/ CallAdaptRulesObject \/ ObjectsDropped

SpecObjects == InitObjects /\ [][NextObjects]_vars

---------------------------------------------------------------------------
(* A progress tracker: sessions are started, frames are fed, statistics read *)

\* readings of time.time() at start_session
Times == {1, 2}

\* frames that differ in the score only
FatigueScores == {6000, 7000, 8500}
FatigueFrames ==
    {[pose_name |-> "parvatasana", alignment_score |-> score,
      joint_angles |-> EmptyDict] : score \in FatigueScores}

\* frames that differ in the joint angles only: both sides, the left side
\* alone, the right side alone, no side
StabilityAngles ==
    {[left_knee_angle |-> 170, right_knee_angle |-> 170, spine_angle |-> 165],
     [left_knee_angle |-> 160, right_knee_angle |-> 174],
     [left_knee_angle |-> 170],
     [right_knee_angle |-> 170],
     [spine_angle |-> 165]}
StabilityFrames ==
    {[pose_name |-> "parvatasana", alignment_score |-> 8500,
      joint_angles |-> joint_angles] : joint_angles \in StabilityAngles}

\* number of places where a frame differs from the frame before it
Changes(frames) ==
    Cardinality({i \in 1..(Len(frames) - 1) : frames[i] # frames[i + 1]})

\* YogaProgressTracker(storage_path)
InitTracker ==
    /\ safety_rules_file = [state |-> "absent"]
    /\ startup = "starting"
    /\ objects = <<>>
    /\ tracker = NewTracker
    /\ initialized = FALSE
    /\ engines = NoEngines
    /\ voice = NewVoice
    /\ knowledge_base = EmptyDict
    /\ sequence = <<>>
    /\ corrections = EmptyDict
    /\ llm_enabled = FALSE
    /\ Idle
    /\ NoDirectCall

\* tracker.start_session()
StartSession ==
    /\ \E now \in Times : tracker' = start_session(tracker, now)
    /\ call' = [fn |-> "start_session"]
    /\ ret' = Returned(None)
    /\ UNCHANGED <<containerVars, pipelineVars, objects, voice>>

\* tracker.update(frame_metrics) with a frame of Frames, while the session
\* has fewer than maxFrames frames and at most maxChanges changes
UpdateWith(Frames, maxFrames, maxChanges) ==
    /\ Len(tracker.frame_metrics_history) < maxFrames
    /\ \E frame_metrics \in Frames :
          /\ Changes(Append(tracker.frame_metrics_history, frame_metrics)) <= maxChanges
          /\ tracker' = update(tracker, frame_metrics)
          /\ call' = [fn |-> "update", frame_metrics |-> frame_metrics]
          /\ ret' = Returned(None)
    /\ UNCHANGED <<containerVars, pipelineVars, objects, voice>>

UpdateScores == UpdateWith(FatigueFrames, MaxFrames, MaxScoreChanges)
UpdateAngles == UpdateWith(StabilityFrames, MaxAngleFrames, MaxAngleChanges)

\* tracker.compute_stability()
ComputeStability ==
    /\ call' = [fn |-> "compute_stability"]
    /\ ret' = Returned(PyFloat(compute_stability(tracker)))
    /\ UNCHANGED <<containerVars, pipelineVars, stateVars>>

\* a practitioner going round the sequence: the frame of the i-th pose, its
\* score and its knee angles differing from pose to pose
SequenceFrame(i) ==
    [pose_name |-> FullSequence[i], alignment_score |-> 7000 + 100 * i,
     joint_angles |-> [left_knee_angle |-> 160 + i, right_knee_angle |-> 170 - i]]
SequenceFrames == {SequenceFrame(i) : i \in 1..Len(FullSequence)}

\* the frame of the pose that follows the pose of frame_metrics in the sequence
NextInSequence(frame_metrics) ==
    LET i == CHOOSE j \in 1..Len(FullSequence) : SequenceFrame(j) = frame_metrics
    IN  SequenceFrame((i % Len(FullSequence)) + 1)

\* tracker.update(frame_metrics) for the frames of a long session: the first
\* frame is any pose of the sequence, every later one the pose that follows
UpdateInSequence ==
    /\ Len(tracker.alignment_scores) < MaxHistoryFrames
    /\ \E frame_metrics \in SequenceFrames :
          /\ tracker.frame_metrics_history # <<>> =>
                frame_metrics =
                    NextInSequence(tracker.frame_metrics_history[
                                       Len(tracker.frame_metrics_history)])
          /\ tracker' = update(tracker, frame_metrics)
          /\ call' = [fn |-> "update", frame_metrics |-> frame_metrics]
          /\ ret' = Returned(None)
    /\ UNCHANGED <<containerVars, pipelineVars, objects, voice>>

\* frames of a good and of a tired practitioner
StickyFrames ==
    {[pose_name |-> "parvatasana", alignment_score |-> score,
      joint_angles |-> EmptyDict] : score \in {6000, 8500}}
UpdateSticky == UpdateWith(StickyFrames, MaxStickyFrames, MaxScoreChanges)

NextFatigue   == StartSession \/ UpdateScores
NextSticky    == StartSession \/ UpdateSticky
NextHistory   == StartSession \/ UpdateInSequence
NextStability == StartSession \/ UpdateAngles \/ ComputeStability

SpecFatigue   == InitTracker /\ [][NextFatigue]_vars
SpecSticky    == InitTracker /\ [][NextSticky]_vars
SpecHistory   == InitTracker /\ [][NextHistory]_vars
SpecStability == InitTracker /\ [][NextStability]_vars

---------------------------------------------------------------------------
(* Direct calls of the correction engine *)

\* YogaCorrectionEngine(knowledge_base_path)
InitCorrection ==
    /\ safety_rules_file = [state |-> "absent"]
    /\ startup = "starting"
    /\ objects = <<>>
    /\ tracker = NewTracker
    /\ initialized = FALSE
    /\ engines = NoEngines
    /\ voice = NewVoice
    /\ knowledge_base = EmptyDict
    /\ sequence = <<>>
    /\ corrections = CorrectionsKB
    /\ llm_enabled = FALSE
    /\ Idle
    /\ NoDirectCall

CallGenerateCorrections ==
    /\ NoDirectCall
    /\ \E pose_name \in PoseNames, issues \in IssueLists :
          /\ call' = [fn |-> "generate_corrections", pose_name |-> pose_name,
                      issues |-> issues]
          /\ ret' = generate_corrections(corrections, pose_name, issues)
    /\ UNCHANGED <<containerVars, pipelineVars, stateVars>>

NextCorrection == CallGenerateCorrections \/ CallEnds

SpecCorrection == InitCorrection /\ [][NextCorrection]_vars

---------------------------------------------------------------------------
(* The container read directly, before and after initialize *)

\* container.<name> read by a caller
ReadEngine ==
    /\ pc = "idle"
    /\ NoDirectCall
    /\ \E name \in EngineNames :
          /\ call' = [fn |-> "property", name |-> name]
          /\ ret' = EngineProperty(engines, name)
    /\ UNCHANGED <<containerVars, pipelineVars, stateVars>>

NextContainer == Next \/ ReadEngine \/ CallEnds

SpecContainer == Init /\ [][NextContainer]_vars

---------------------------------------------------------------------------
(* A voice feedback manager: sentences are spoken as time passes *)

\* the sentences handed to speak: two corrections, a praise, an empty one
Sentences ==
    {"Straighten your knees gently.", "Lift your hips higher.",
     "Excellent alignment. Maintain steady breathing.", ""}

\* what tts_engine.play does: it returns True, returns False, or raises
PlayOutcomes == {"played", "failed", "raise"}

\* VoiceFeedbackManager(tts_engine)
InitVoice ==
    /\ safety_rules_file = [state |-> "absent"]
    /\ startup = "starting"
    /\ objects = <<>>
    /\ tracker = NewTracker
    /\ initialized = FALSE
    /\ engines = NoEngines
    /\ voice = NewVoice
    /\ knowledge_base = EmptyDict
    /\ sequence = <<>>
    /\ corrections = EmptyDict
    /\ llm_enabled = FALSE
    /\ Idle
    /\ NoDirectCall

\* a second passes between two calls
Tick ==
    /\ voice.clock < MaxClock
    /\ voice' = [voice EXCEPT !.clock = @ + 1]
    /\ call' = [fn |-> "none"]
    /\ ret' = EmptyDict
    /\ UNCHANGED <<containerVars, pipelineVars, objects, tracker>>

\* speak(sentence, alignment_score, force=force) at the time the clock shows;
\* the play, when it is made, returns True, returns False or raises
Speak ==
    /\ \E sentence \in Sentences, alignment_score \in {None, PyFloat(9500)},
          force \in BOOLEAN :
          IF ~force /\ ~should_speak(voice, sentence, alignment_score, voice.clock)
          THEN /\ voice' = voice
               /\ call' = [fn |-> "speak", sentence |-> sentence, force |-> force,
                           play |-> "none"]
               /\ ret' = Returned(FALSE)
          ELSE \E outcome \in PlayOutcomes :
               /\ voice' = IF outcome = "played"
                            THEN Spoken(voice, sentence, voice.clock)
                            ELSE voice
               /\ call' = [fn |-> "speak", sentence |-> sentence, force |-> force,
                           play |-> outcome]
               /\ ret' = Returned(outcome = "played")
    /\ UNCHANGED <<containerVars, pipelineVars, objects, tracker>>

\* manager.reset()
Reset ==
    /\ voice' = reset(voice)
    /\ call' = [fn |-> "reset"]
    /\ ret' = Returned(None)
    /\ UNCHANGED <<containerVars, pipelineVars, objects, tracker>>

NextVoice == Tick \/ Speak \/ Reset

SpecVoice == InitVoice /\ [][NextVoice]_vars

---------------------------------------------------------------------------
(* Properties *)

\* adapt_rules has answered pose_allowed = False for the current request
SafetyRejected ==
    "pose_allowed" \in DOMAIN safety_result /\ ~safety_result.pose_allowed

\* position of the first call of method fn in calls, 0 when it was not called
FirstCall(fn) ==
    IF fn \in Range(calls)
    THEN CHOOSE i \in DOMAIN calls :
            calls[i] = fn /\ \A j \in DOMAIN calls : calls[j] = fn => i <= j
    ELSE 0

\* C1: in the pipeline, a request for which adapt_rules reported
\* pose_allowed = False never has the rule engine's evaluate_pose invoked: the
\* request is never at the scoring or coaching step, no evaluation exists, and
\* whenever evaluate_pose was invoked adapt_rules was invoked before it and
\* allowed the pose.
C1_GateBlocksScoring ==
    /\ SafetyRejected =>
          /\ pc \notin {"evaluate", "coach"}
          /\ "evaluate_pose" \notin Range(calls)
          /\ evaluation = EmptyDict
    /\ (pc = "evaluate" \/ "evaluate_pose" \in Range(calls)) =>
          /\ FirstCall("adapt_rules") > 0
          /\ "evaluate_pose" \in Range(calls) =>
                FirstCall("adapt_rules") < FirstCall("evaluate_pose")
          /\ "pose_allowed" \in DOMAIN safety_result
          /\ safety_result.pose_allowed

\* a contraindicated request has been answered without scoring
C1_Witness ==
    /\ pc = "done"
    /\ SafetyRejected
    /\ request.pose_name = "bhujangasana"
    /\ "back_pain" \in Range(request.user_profile.conditions)
    /\ result.issues = <<"pose_contraindicated">>

\* the direct call is adapt_rules for a pose whose contraindication list holds
\* one of the profile's condition codes
ContraindicatedCall ==
    /\ call.fn = "adapt_rules"
    /\ call.pose_name \in DOMAIN knowledge_base
    /\ "contraindications" \in DOMAIN knowledge_base[call.pose_name]
    /\ Range(call.user_profile.conditions)
          \cap Range(knowledge_base[call.pose_name].contraindications) # {}

\* C2: for every pose and every profile holding at least one condition code of
\* the pose's contraindication list, adapt_rules returns pose_allowed = False,
\* adapted_rules = {}, risk_level = "high" and a reason, whatever the level and
\* the base rules.
C2_ContraindicatedRejected ==
    ContraindicatedCall =>
        /\ ret.pose_allowed = FALSE
        /\ ret.adapted_rules = EmptyDict
        /\ ret.risk_level = "high"
        /\ "reason" \in DOMAIN ret
        /\ \E c \in Range(call.user_profile.conditions) :
              ret.reason = "Pose contraindicated due to " \o c

\* rejected although the contraindicated condition is the second of the list
\* and the base rules are not empty
C2_Witness ==
    /\ ContraindicatedCall
    /\ call.pose_name = "parvatasana"
    /\ call.user_profile = [level |-> "advanced", conditions |-> <<"back_pain", "high_bp">>]
    /\ call.base_rules = rules_map["parvatasana"]
    /\ ret.pose_allowed = FALSE
    /\ ret.reason = "Pose contraindicated due to high_bp"

\* every value of the map is a number in [0, 180]
AllInRange(angles) ==
    \A k \in DOMAIN angles : 0 <= angles[k].v /\ angles[k].v <= 180

\* C3: validate_angles of a map of numbers returns True if and only if every
\* value v has 0 <= v <= 180: one out-of-range value at any key makes it
\* False, and the empty map validates.
C3_ValidateIffAllInRange ==
    (call.fn = "validate_angles" /\ \A k \in DOMAIN call.angles : IsNumber(call.angles[k])) =>
        /\ ret = Returned(AllInRange(call.angles))
        /\ call.angles = EmptyDict => ret = Returned(TRUE)

\* the only out-of-range value is at the last key iterated
C3_Witness ==
    /\ call.fn = "validate_angles"
    /\ call.angles = [left_knee_angle |-> PyInt(0), spine_angle |-> PyInt(180),
                      shoulder_angle |-> PyInt(181)]
    /\ ret = Returned(FALSE)

\* the change level L makes to a 'min' angle threshold
MinShift(level) ==
    IF level = "beginner" THEN -10 ELSE IF level = "advanced" THEN 5 ELSE 0

\* key for key, adapted is base with every numeric angle threshold moved by
\* shift when the key contains 'min' and by -shift otherwise, and the rest kept
ShiftedBy(adapted, base, shift) ==
    /\ DOMAIN adapted = DOMAIN base
    /\ \A key \in DOMAIN base :
          IF IsNumber(base[key]) /\ key \in KeysWithAngle
          THEN adapted[key].v =
                   base[key].v + (IF key \in KeysWithMin THEN shift ELSE -shift)
          ELSE adapted[key] = base[key]

\* the direct call is adapt_rules and it allowed the pose
AllowedCall == call.fn = "adapt_rules" /\ ret.pose_allowed

\* C4: for every pose allowed for the profile, adapt_rules for a beginner
\* returns every numeric 'min' angle threshold lowered by exactly 10 and every
\* other angle threshold raised by 10; for an advanced profile 'min' angle
\* thresholds are raised by 5 and the others lowered by 5; keys that are not
\* numeric angle thresholds are unchanged.
C4_LevelTolerance ==
    (AllowedCall /\ call.user_profile.level \in {"beginner", "advanced"}) =>
        ShiftedBy(ret.adapted_rules, call.base_rules, MinShift(call.user_profile.level))

\* the pose has data in the safety knowledge base
CallHasPoseData ==
    /\ call.pose_name \in DOMAIN knowledge_base
    /\ knowledge_base[call.pose_name] # EmptyDict

\* C4 holds of the poses that have data in the safety knowledge base
C4_WithPoseData ==
    (AllowedCall /\ CallHasPoseData
        /\ call.user_profile.level \in {"beginner", "advanced"}) =>
        ShiftedBy(ret.adapted_rules, call.base_rules, MinShift(call.user_profile.level))

\* a beginner's lunge: the 'min' keys loosened and the 'max' key raised
C4_Witness ==
    /\ AllowedCall /\ CallHasPoseData
    /\ call.pose_name = "ashwa_sanchalanasana"
    /\ call.user_profile.level = "beginner"
    /\ call.base_rules = rules_map["ashwa_sanchalanasana"]
    /\ ret.adapted_rules.front_knee_angle_min = PyInt(70)
    /\ ret.adapted_rules.front_knee_angle_max = PyInt(120)

\* C5: for an intermediate profile and an allowed pose, adapt_rules returns
\* adapted_rules equal to base_rules, key for key and value for value.
C5_IntermediateUnchanged ==
    (AllowedCall /\ call.user_profile.level = "intermediate") =>
        ret.adapted_rules = call.base_rules

\* an intermediate profile gets every angle threshold moved by 5
C5_Witness ==
    /\ AllowedCall /\ CallHasPoseData
    /\ call.user_profile.level = "intermediate"
    /\ call.base_rules = rules_map["ashwa_sanchalanasana"]
    /\ ret.adapted_rules.front_knee_angle_min = PyInt(75)
    /\ ret.adapted_rules.front_knee_angle_max = PyInt(115)

ResultKeys == {"pose_name", "pose_detected", "alignment_score", "issues",
               "coaching_sentence", "risk_level"}

\* C6: whatever the input (invalid angles, unknown pose, contraindicated pose,
\* an exception raised by an engine), evaluate_pose of the session manager
\* returns a dictionary carrying pose_name, pose_detected, alignment_score,
\* issues, coaching_sentence and risk_level, and lets no exception out; a
\* request that has not returned can always take its next step.
C6_AlwaysStructuredResult ==
    /\ pc = "done" => (~IsRaised(result) /\ ResultKeys \subseteq DOMAIN result)
    /\ pc \in {"validate", "get_rules", "adapt", "evaluate", "coach"} =>
          (result = EmptyDict /\ ENABLED Next)

\* the rule engine raised and the caller still got a result
C6_Witness ==
    /\ pc = "done"
    /\ IsRaised(evaluation)
    /\ result = _error_response("Internal evaluation error")

\* the pose of the request is in the loaded sequence and has default rules
KnownPose ==
    request.pose_name \in Range(sequence) /\ request.pose_name \in DOMAIN rules_map

\* C7: get_pose_rules returns an empty rule set for every pose name that is
\* not a known pose, and the pipeline answers it as unrecognized:
\* pose_detected = False, alignment_score 0.0, the rule engine's evaluate_pose
\* not invoked; for a known pose the rule set is not empty, and that of
\* 'parvatasana' contains 'knee_angle_min'.
C7_UnknownPoseUnrecognized ==
    "get_pose_rules" \in Range(calls) =>
        /\ ~KnownPose =>
              /\ base_rules = EmptyDict
              /\ pc = "done"
              /\ result.pose_detected = FALSE
              /\ result.alignment_score = 0
              /\ "evaluate_pose" \notin Range(calls)
        /\ KnownPose => base_rules # EmptyDict
        /\ (KnownPose /\ request.pose_name = "parvatasana") =>
              "knee_angle_min" \in DOMAIN base_rules

\* a pose of the loaded sequence that has no default rules is unrecognized
C7_Witness ==
    /\ pc = "done"
    /\ request.pose_name = "hasta_padasana"
    /\ sequence = FullSequence
    /\ calls = <<"validate_angles", "get_pose_rules">>
    /\ result.pose_detected = FALSE

\* the direct call is evaluate_pose of the rule engine and it returned
ScoredCall == call.fn = "evaluate_pose" /\ ~IsRaised(ret)

\* the rule key is in the rules of the direct call
HasRule(rule_key) == rule_key \in DOMAIN call.rules

\* the angle at key reaches the threshold of the rule
SideOk(key, rule_key) == call.joint_angles[key].v >= call.rules[rule_key].v

KneesOk  == SideOk("left_knee_angle", "knee_angle_min")
                /\ SideOk("right_knee_angle", "knee_angle_min")
ElbowsOk == SideOk("left_elbow_angle", "elbow_angle_min")
                /\ SideOk("right_elbow_angle", "elbow_angle_min")

\* the hip rule is in the rules with a true flag
HasHipRule ==
    HasRule("hip_height_above_shoulder") /\ call.rules["hip_height_above_shoulder"].v # 0

HipsOk == call.landmarks_dict["left_hip"] + call.landmarks_dict["right_hip"]
              < call.landmarks_dict["left_shoulder"] + call.landmarks_dict["right_shoulder"]

\* total_rules and passed_count as evaluate_pose tallies them
ExpectedTotal ==
    (IF HasRule("knee_angle_min") THEN 2 ELSE 0)
    + (IF HasRule("elbow_angle_min") THEN 2 ELSE 0)
    + (IF HasHipRule THEN 1 ELSE 0)
ExpectedPassed ==
    (IF HasRule("knee_angle_min") /\ KneesOk THEN 2 ELSE 0)
    + (IF HasRule("elbow_angle_min") /\ ElbowsOk THEN 2 ELSE 0)
    + (IF HasHipRule /\ HipsOk THEN 1 ELSE 0)

\* passed_count if every side that reaches its threshold earned one sub-rule
PassingSides(left_key, right_key, rule_key) ==
    (IF SideOk(left_key, rule_key) THEN 1 ELSE 0)
    + (IF SideOk(right_key, rule_key) THEN 1 ELSE 0)
PerSidePassed ==
    (IF HasRule("knee_angle_min")
     THEN PassingSides("left_knee_angle", "right_knee_angle", "knee_angle_min") ELSE 0)
    + (IF HasRule("elbow_angle_min")
       THEN PassingSides("left_elbow_angle", "right_elbow_angle", "elbow_angle_min") ELSE 0)
    + (IF HasHipRule /\ HipsOk THEN 1 ELSE 0)

\* score (in hundredths) is passed / total * 100 rounded to two decimals
IsPercentOf(score, passed, total) ==
    LET diff == score * total - passed * 10000 IN
    2 * (IF diff < 0 THEN -diff ELSE diff) <= total

\* number of occurrences of x in sequence s
Count(x, s) == Cardinality({i \in DOMAIN s : s[i] = x})

\* C8: evaluate_pose computes alignment_score = passed_count / total_rules * 100
\* (0 when total_rules = 0), so the score lies in [0, 100]; when every
\* evaluated predicate passes for a rule set with at least one scored rule the
\* result is issues = [] and alignment_score = 100.0.
C8_ScoreIsPassedOverTotal ==
    ScoredCall =>
        /\ 0 <= ret.alignment_score /\ ret.alignment_score <= 10000
        /\ ExpectedTotal = 0 => ret.alignment_score = 0
        /\ ExpectedTotal > 0 =>
              IsPercentOf(ret.alignment_score, ExpectedPassed, ExpectedTotal)
        /\ (ExpectedTotal > 0 /\ ExpectedPassed = ExpectedTotal) =>
              (ret.issues = <<>> /\ ret.alignment_score = 10000)

\* the rules {knee_angle_min: 170, elbow_angle_min: 170} with the four angles
\* at 170 or more
C8_Witness ==
    /\ ScoredCall
    /\ call.rules = [knee_angle_min |-> PyInt(170), elbow_angle_min |-> PyInt(170)]
    /\ call.joint_angles = [left_knee_angle |-> PyInt(175), right_knee_angle |-> PyInt(170),
                            left_elbow_angle |-> PyInt(175), right_elbow_angle |-> PyInt(175)]
    /\ ret.issues = <<>>
    /\ ret.alignment_score = 10000

\* C9 as claimed: the knee rule (and likewise the elbow rule) adds 2 to the
\* total and every side at or above the threshold adds 1 to passed_count on
\* its own, so one passing and one bent knee earn 1 of the 2 knee sub-rules;
\* 'knees_bent' is appended once.
C9_PerSideCredit ==
    (ScoredCall /\ (HasRule("knee_angle_min") \/ HasRule("elbow_angle_min"))) =>
        /\ IsPercentOf(ret.alignment_score, PerSidePassed, ExpectedTotal)
        /\ Count("knees_bent", ret.issues) <= 1
        /\ Count("elbows_bent", ret.issues) <= 1

\* C9 as amended: the knee rule (and likewise the elbow rule) adds 2 to the
\* total, and adds 2 to passed_count when both sides are at or above the
\* threshold and nothing otherwise, so one passing and one bent knee earn 0 of
\* the 2 knee sub-rules; the issue is appended once, exactly when a side is
\* below the threshold.
C9_BothSidesOrNothing ==
    ScoredCall =>
        /\ HasRule("knee_angle_min") =>
              /\ KneeBlock(call.rules, call.joint_angles).total = 2
              /\ KneeBlock(call.rules, call.joint_angles).passed = IF KneesOk THEN 2 ELSE 0
              /\ Count("knees_bent", ret.issues) = IF KneesOk THEN 0 ELSE 1
        /\ HasRule("elbow_angle_min") =>
              /\ ElbowBlock(call.rules, call.joint_angles).total = 2
              /\ ElbowBlock(call.rules, call.joint_angles).passed = IF ElbowsOk THEN 2 ELSE 0
              /\ Count("elbows_bent", ret.issues) = IF ElbowsOk THEN 0 ELSE 1
        /\ DOMAIN call.rules = {"knee_angle_min"} =>
              ret.alignment_score = IF KneesOk THEN 10000 ELSE 0
        /\ DOMAIN call.rules = {"elbow_angle_min"} =>
              ret.alignment_score = IF ElbowsOk THEN 10000 ELSE 0

\* one knee passes, the other is bent, and the knee rule is the only rule
C9_Witness ==
    /\ ScoredCall
    /\ DOMAIN call.rules = {"knee_angle_min"}
    /\ SideOk("left_knee_angle", "knee_angle_min")
    /\ ~SideOk("right_knee_angle", "knee_angle_min")
    /\ ret.issues = <<"knees_bent">>
    /\ ret.alignment_score = 0

\* the direct call has the rules of test_evaluate_pose and the four angles
TestRulesCall ==
    /\ call.fn = "evaluate_pose"
    /\ call.rules = [knee_angle_min |-> PyInt(170), elbow_angle_min |-> PyInt(170)]
    /\ DOMAIN call.joint_angles = EvalAngleKeys

\* C10: with rules exactly {knee_angle_min: 170, elbow_angle_min: 170},
\* whenever at least one knee angle is below 170 and both elbow angles are at
\* least 170, evaluate_pose returns issues = ['knees_bent'] and
\* alignment_score = 50.0, and the result always contains the keys 'issues'
\* and 'alignment_score'.
C10_BentKneeHalfScore ==
    TestRulesCall =>
        /\ {"issues", "alignment_score"} \subseteq DOMAIN ret
        /\ ((call.joint_angles["left_knee_angle"].v < 170
                \/ call.joint_angles["right_knee_angle"].v < 170)
            /\ call.joint_angles["left_elbow_angle"].v >= 170
            /\ call.joint_angles["right_elbow_angle"].v >= 170) =>
              (ret.issues = <<"knees_bent">> /\ ret.alignment_score = 5000)

\* the left knee at 165, the right knee passing, an elbow exactly at 170
C10_Witness ==
    /\ TestRulesCall
    /\ call.joint_angles = [left_knee_angle |-> PyInt(165), right_knee_angle |-> PyInt(175),
                            left_elbow_angle |-> PyInt(170), right_elbow_angle |-> PyInt(175)]
    /\ ret.issues = <<"knees_bent">>
    /\ ret.alignment_score = 5000

\* the direct call is evaluate_pose with a rule in the rules and an angle the
\* rule reads absent from the angles map
MissingAngleCall ==
    /\ call.fn = "evaluate_pose"
    /\ \/ /\ HasRule("knee_angle_min")
          /\ ~({"left_knee_angle", "right_knee_angle"} \subseteq DOMAIN call.joint_angles)
       \/ /\ HasRule("elbow_angle_min")
          /\ ~({"left_elbow_angle", "right_elbow_angle"} \subseteq DOMAIN call.joint_angles)

\* C11: when a rule key is in the rules and a joint-angle key it needs is
\* absent from the angles map, evaluate_pose raises no error, adds nothing to
\* the issues for that rule and returns a scored result.
C11_MissingAngleNotApplicable ==
    MissingAngleCall =>
        /\ ~IsRaised(ret)
        /\ {"issues", "alignment_score"} \subseteq DOMAIN ret
        /\ ~({"left_knee_angle", "right_knee_angle"} \subseteq DOMAIN call.joint_angles)
              => "knees_bent" \notin Range(ret.issues)
        /\ ~({"left_elbow_angle", "right_elbow_angle"} \subseteq DOMAIN call.joint_angles)
              => "elbows_bent" \notin Range(ret.issues)

\* the knee rule with no right knee angle: the subscript raises KeyError
C11_Witness ==
    /\ MissingAngleCall
    /\ call.rules = [knee_angle_min |-> PyInt(170)]
    /\ call.joint_angles = [left_knee_angle |-> PyInt(175)]
    /\ ret = Raised("KeyError")

\* the rule keys of rules_map other than the knee, elbow and hip keys that the
\* rule sets of the lunge, the cobra and the raised arms pose carry
ExtraRuleKeys == {"spine_extension_min", "pelvis_grounded", "front_knee_angle_min",
                  "front_knee_angle_max", "back_knee_angle_min"}

\* C12: every rule key of the rule set beyond knee_angle_min, elbow_angle_min
\* and hip_height_above_shoulder is evaluated by evaluate_pose: each adds a
\* fixed weight (at least 1) to the total-rule counter, so a rule set holding
\* such a key has a total above what the knee, elbow and hip rules add.
C12_ExtraKeysScored ==
    (ScoredCall /\ DOMAIN call.rules \cap ExtraRuleKeys # {}) =>
        total_rules(call.landmarks_dict, call.joint_angles, call.rules)
            >= ExpectedTotal + Cardinality(DOMAIN call.rules \cap ExtraRuleKeys)

\* the rule set of the lunge: no key of it is counted, the score is 0 and no
\* issue is reported whatever the angles are
C12_Witness ==
    /\ ScoredCall
    /\ call.rules = rules_map["ashwa_sanchalanasana"]
    /\ total_rules(call.landmarks_dict, call.joint_angles, call.rules) = 0
    /\ ret.alignment_score = 0
    /\ ret.issues = <<>>

\* C14: in every result returned by the pipeline a risk_level other than 'low'
\* occurs only when the safety engine rejected the pose for that request;
\* every other result (invalid input and unknown pose included) carries
\* risk_level = 'low'.
C14_ElevatedRiskOnlyFromSafety ==
    pc = "done" =>
        /\ result.risk_level # "low" => SafetyRejected
        /\ ~SafetyRejected => result.risk_level = "low"

\* invalid joint angles: the safety engine was never called and the result
\* carries risk_level 'medium'
C14_Witness ==
    /\ pc = "done"
    /\ calls = <<"validate_angles">>
    /\ safety_result = EmptyDict
    /\ result = _error_response("Invalid joint angles")
    /\ result.risk_level = "medium"

\* the pose of the direct call is contraindicated for one of the profile's
\* conditions once these are normalized (case and blanks)
NormalizedContraindicated ==
    /\ call.pose_name \in DOMAIN knowledge_base
    /\ "contraindications" \in DOMAIN knowledge_base[call.pose_name]
    /\ {lower_strip(c) : c \in Range(call.user_profile.conditions)}
          \cap Range(knowledge_base[call.pose_name].contraindications) # {}

\* C15: the contraindication gate decides on normalized condition codes: a
\* profile holding a case/whitespace variant of a condition the pose is
\* contraindicated for is rejected exactly as one holding the code itself, and
\* duplicates in the list change nothing.
C15_GateOnNormalizedCodes ==
    call.fn = "adapt_rules" => (ret.pose_allowed = ~NormalizedContraindicated)

\* ' Back_Pain ' is the only condition and the cobra, contraindicated for
\* 'back_pain', is allowed
C15_Witness ==
    /\ call.fn = "adapt_rules"
    /\ call.pose_name = "bhujangasana"
    /\ call.user_profile.conditions = <<" Back_Pain ">>
    /\ NormalizedContraindicated
    /\ ret.pose_allowed
    /\ ret.risk_level = "low"

\* duplicates change nothing: the decision for [c, c] is that for [c]
C15_DuplicatesIgnored ==
    (call.fn = "adapt_rules" /\ Len(call.user_profile.conditions) = 2
        /\ call.user_profile.conditions[1] = call.user_profile.conditions[2]) =>
        ret = adapt_rules(knowledge_base, call.pose_name, call.base_rules,
                          [call.user_profile EXCEPT !.conditions = <<@[1]>>])

\* C16: if the safety knowledge base cannot be loaded at startup (the file is
\* absent or is not JSON), initialization aborts and no evaluation is ever
\* served: the system is never serving, and never has a request in progress,
\* with a contraindication table that was not loaded from the file.
C16_NoServingWithoutSafetyRules ==
    safety_rules_file.state # "present" =>
        /\ ~initialized
        /\ startup # "serving"
        /\ pc = "idle"

\* the file is absent, the table is empty, and the cobra is scored for a
\* profile with 'back_pain', for which the file's table contraindicates it
C16_Witness ==
    /\ safety_rules_file.state = "absent"
    /\ knowledge_base = EmptyDict
    /\ pc = "done"
    /\ request.pose_name = "bhujangasana"
    /\ request.user_profile.conditions = <<"back_pain">>
    /\ "back_pain" \in Range(SafetyKB["bhujangasana"].contraindications)
    /\ "evaluate_pose" \in Range(calls)
    /\ result.pose_detected
    /\ result.issues # <<"pose_contraindicated">>

\* a file that is not JSON does abort the startup
C16_CorruptFileAborts ==
    safety_rules_file.state = "corrupt" =>
        (~initialized /\ startup # "serving" /\ pc = "idle")

\* the language model was called for the current request and raised: the
\* fallback was called after it
LLMRaised ==
    /\ "generate_coaching" \in Range(calls)
    /\ "_fallback_coaching" \in Range(calls)

\* what the Correction Mapper can make the fallback say for a pose: the
\* affirmation, the corrections of the pose's library (one, or two joined by
\* a blank), the sentence for a pose it does not know, the generic sentence
FallbackSentences(kb, pose_name) ==
    LET library == Get(Get(kb, pose_name, EmptyDict), "correction_library", EmptyDict)
        texts   == {library[issue] : issue \in DOMAIN library}
    IN  {"Excellent alignment. Maintain steady breathing.",
         "Focus on your alignment and breathing.",
         "Pose not found in knowledge base."}
        \cup texts \cup {a \o " " \o b : a \in texts, b \in texts}

\* C17: when the language model is configured and generate_coaching raises,
\* the coaching sentence of the result is exactly what _fallback_coaching
\* returns for the same pose and issues, and the result is a normal one (pose
\* detected, the score and the issues of the evaluation); for every pose name
\* and every issues list the fallback returns one of the Correction Mapper's
\* sentences.
C17_LLMFailureFallsBack ==
    /\ (pc = "done" /\ LLMRaised) =>
          /\ result.coaching_sentence =
                 _fallback_coaching(corrections, request.pose_name, evaluation.issues)
          /\ result.pose_detected
          /\ result.pose_name = request.pose_name
          /\ result.issues = evaluation.issues
          /\ result.alignment_score = evaluation.alignment_score
    /\ (pc = "idle" /\ initialized) =>
          \A pose_name \in PoseNames, issues \in IssueLists :
              _fallback_coaching(corrections, pose_name, issues)
                  \in FallbackSentences(corrections, pose_name)

\* the language model raised for bent knees and low hips in the mountain pose
\* and the result carries the two corrections of the library
C17_Witness ==
    /\ pc = "done"
    /\ llm_enabled
    /\ LLMRaised
    /\ request.pose_name = "parvatasana"
    /\ result.issues = <<"knees_bent", "hips_low">>
    /\ result.coaching_sentence = "Straighten your knees gently. Lift your hips higher."
    /\ result.pose_detected

\* the direct call is adapt_rules on the caller's dict object
AdaptObjectCall == call.fn = "adapt_rules" /\ objects # <<>>

\* the dict the caller handed in still has the contents get_pose_rules gave it
BaseRulesIntact == objects[call.base_rules] = _get_default_rules(call.pose_name)

\* C13: adapt_rules never mutates the base_rules it is given, in any of its
\* branches (pose without safety data, contraindicated, allowed), whatever
\* calls with other profiles came before, and the adapted_rules it returns is
\* a copy: another object than base_rules, holding what adapt_rules computes.
C13_AdaptedRulesIsDeepCopy ==
    AdaptObjectCall =>
        /\ BaseRulesIntact
        /\ ret.adapted_rules # call.base_rules
        /\ objects[ret.adapted_rules] =
               adapt_rules(knowledge_base, call.pose_name,
                           _get_default_rules(call.pose_name),
                           call.user_profile).adapted_rules

\* the part of C13 that holds: base_rules is never mutated, the contents of
\* adapted_rules are what adapt_rules computes, and adapted_rules is another
\* object than base_rules exactly when the pose has safety data
C13_BaseRulesNeverMutated ==
    AdaptObjectCall =>
        /\ BaseRulesIntact
        /\ objects[ret.adapted_rules] =
               adapt_rules(knowledge_base, call.pose_name,
                           _get_default_rules(call.pose_name),
                           call.user_profile).adapted_rules
        /\ (ret.adapted_rules # call.base_rules) = CallHasPoseData

\* a pose without safety data: adapted_rules is the caller's dict itself
C13_Witness ==
    /\ AdaptObjectCall
    /\ call.pose_name = "pranamasana"
    /\ ~CallHasPoseData
    /\ ret.pose_allowed
    /\ ret.adapted_rules = call.base_rules
    /\ BaseRulesIntact

\* a second call with another profile starts from the untouched rules
C13_SecondCallWitness ==
    /\ AdaptObjectCall
    /\ Len(objects) = 3
    /\ call.pose_name = "parvatasana"
    /\ call.user_profile.level = "advanced"
    /\ objects[2].knee_angle_min = PyInt(160)
    /\ objects[3].knee_angle_min = PyInt(175)
    /\ BaseRulesIntact

\* the 24 scores ending at position i of the session's scores
WindowAt(scores, i) == SubSeq(scores, i - 23, i)

\* the mean of the first 12 scores of a full window exceeds 70 and the mean
\* of its last 12 is more than 15 points lower (hundredths; sums of 12)
ShowsFatigue(window) ==
    /\ Sum(SubSeq(window, 1, 12)) > 12 * 7000
    /\ Sum(SubSeq(window, 13, 24)) < Sum(SubSeq(window, 1, 12)) - 12 * 1500

\* C18: fatigue_detected is False as long as fewer than 24 scores have been
\* fed since the session began; it is True when the full window shows fatigue
\* (mean of the first 12 above 70, mean of the last 12 more than 15 lower),
\* and it is True only if some full window seen so far in the session did.
C18_FatigueNeedsFullWindow ==
    LET scores == tracker.alignment_scores IN
    /\ Len(scores) < 24 => ~tracker.fatigue_detected
    /\ Len(tracker.fatigue_window) <= 24
    /\ (Len(scores) >= 24 /\ ShowsFatigue(tracker.fatigue_window))
          => tracker.fatigue_detected
    /\ tracker.fatigue_detected =
          (\E i \in 24..Len(scores) : ShowsFatigue(WindowAt(scores, i)))

\* 12 scores of 85 followed by 12 scores of 60 since start_session
C18_Witness ==
    /\ call.fn = "update"
    /\ tracker.session_id = SessionId(2)
    /\ tracker.alignment_scores = [i \in 1..24 |-> IF i <= 12 THEN 8500 ELSE 6000]
    /\ tracker.fatigue_window = tracker.alignment_scores
    /\ tracker.fatigue_detected

\* C19: compute_stability returns exactly 0.0 whenever the left or the right
\* angle history holds fewer than 10 samples, after any sequence of updates,
\* frames with the angles of one side only included.
C19_StabilityZeroBelowTenSamples ==
    (call.fn = "compute_stability"
        /\ (Len(tracker.left_angles_history) < 10
                \/ Len(tracker.right_angles_history) < 10)) =>
        ret = Returned(PyFloat(0))

\* ten frames with the left knee alone: the right history is empty and the
\* stability is 100.0
C19_Witness ==
    /\ call.fn = "compute_stability"
    /\ Len(tracker.left_angles_history) = 10
    /\ tracker.right_angles_history = <<>>
    /\ \A i \in 1..10 : tracker.left_angles_history[i] = [left_knee_angle |-> 170]
    /\ ret = Returned(PyFloat(10000))

\* what the code guards: fewer than 10 left samples give 0.0
C19_ZeroBelowTenLeftSamples ==
    (call.fn = "compute_stability" /\ Len(tracker.left_angles_history) < 10) =>
        ret = Returned(PyFloat(0))

\* both histories hold ten samples with two values of the left knee
C19_VarianceWitness ==
    /\ call.fn = "compute_stability"
    /\ Len(tracker.left_angles_history) >= 10
    /\ Len(tracker.right_angles_history) >= 10
    /\ ret.ret.v > 0 /\ ret.ret.v < 10000

\* every rolling buffer of the tracker tr is empty and no fatigue is flagged
BuffersEmpty(tr) ==
    /\ tr.frame_metrics_history = <<>>
    /\ tr.alignment_scores = <<>>
    /\ tr.left_angles_history = <<>>
    /\ tr.right_angles_history = <<>>
    /\ tr.spine_extensions = <<>>
    /\ tr.poses_performed = {}
    /\ tr.fatigue_window = <<>>
    /\ tr.fatigue_detected = FALSE

\* the tracker tr is a newly constructed one but for the session it is in
FreshButForSession(tr) ==
    [tr EXCEPT !.session_id = None, !.session_start_time = None] = NewTracker

C22_MediumIffMoreThanTwoIssues ==
    call.fn = "generate_corrections" =>
        ret.priority_level = IF Len(call.issues) > 2 THEN "medium" ELSE "low"

\* three issues for a pose the corrections table does not hold: 'low'
C22_Witness ==
    /\ call.fn = "generate_corrections"
    /\ call.pose_name = "tree_pose"
    /\ call.issues = <<"knees_bent", "elbows_bent", "hips_low">>
    /\ ret.verbal_corrections = <<"Pose not found in knowledge base.">>
    /\ ret.priority_level = "low"

\* for the poses of the corrections table the priority follows the count
C22_KnownPoseMediumIffMoreThanTwo ==
    (call.fn = "generate_corrections" /\ call.pose_name \in DOMAIN corrections) =>
        ret.priority_level = IF Len(call.issues) > 2 THEN "medium" ELSE "low"

\* the frame history is the last min(n, 1000) frames of the n fed since
\* start_session, oldest first: its scores are the last scores of
\* alignment_scores (which holds one score per update), each frame is the one
\* that followed its predecessor, and the newest is the frame just fed
HoldsMostRecentFrames ==
    LET history == tracker.frame_metrics_history
        scores  == tracker.alignment_scores
        n       == Len(scores)
        kept    == IF n < frame_metrics_maxlen THEN n ELSE frame_metrics_maxlen
    IN  /\ Len(history) = kept
        /\ \A k \in 1..kept : history[k].alignment_score = scores[n - kept + k]
        /\ \A k \in 1..(kept - 1) : history[k + 1] = NextInSequence(history[k])
        /\ call.fn = "update" => history[kept] = call.frame_metrics

\* C21: after any sequence of update calls in a session the frame history
\* holds at most 1000 entries, the most recent min(n, 1000) frames in arrival
\* order (the oldest is evicted once the capacity is exceeded), and the
\* fatigue window never holds more than 24 scores.
C21_FrameHistoryBounded ==
    /\ Len(tracker.frame_metrics_history) <= 1000
    /\ HoldsMostRecentFrames
    /\ Len(tracker.fatigue_window) <= 24
    /\ tracker.fatigue_window = LastN(tracker.alignment_scores, 24)

\* the 1001st frame of a session has evicted the first
C21_Witness ==
    /\ call.fn = "update"
    /\ Len(tracker.alignment_scores) = 1001
    /\ Len(tracker.frame_metrics_history) = 1000
    /\ tracker.frame_metrics_history[1000] = call.frame_metrics
    /\ tracker.frame_metrics_history[1].alignment_score = tracker.alignment_scores[2]
    /\ Len(tracker.fatigue_window) = 24

\* C29: within a session alignment_scores, left_angles_history and
\* right_angles_history never hold more than the 1000 frames of the frame
\* history.
C29_PerFrameListsBounded ==
    /\ Len(tracker.alignment_scores) <= frame_metrics_maxlen
    /\ Len(tracker.left_angles_history) <= frame_metrics_maxlen
    /\ Len(tracker.right_angles_history) <= frame_metrics_maxlen

\* after 1001 frames the three lists hold 1001 entries, the frame history 1000
C29_Witness ==
    /\ call.fn = "update"
    /\ Len(tracker.frame_metrics_history) = frame_metrics_maxlen
    /\ Len(tracker.alignment_scores) = 1001
    /\ Len(tracker.left_angles_history) = 1001
    /\ Len(tracker.right_angles_history) = 1001

\* the three lists hold one entry for every frame fed since start_session
C29_ListsHoldEveryFrame ==
    LET scores == tracker.alignment_scores
    IN  /\ Len(tracker.left_angles_history) = Len(scores)
        /\ Len(tracker.right_angles_history) = Len(scores)
        /\ Len(scores) >= Len(tracker.frame_metrics_history)

\* C24: within a session fatigue_detected is sticky: once set, it is still
\* set after every later update, whatever the scores; a step that clears it
\* is a start_session.
C24_FatigueSticky ==
    [][tracker.fatigue_detected =>
          /\ call'.fn = "update" => tracker'.fatigue_detected
          /\ ~tracker'.fatigue_detected => call'.fn = "start_session"]_vars

\* the flag is set, and the window the last update left holds 24 scores of 85
C24_Witness ==
    /\ call.fn = "update"
    /\ tracker.fatigue_detected
    /\ Len(tracker.fatigue_window) = 24
    /\ \A i \in 1..24 : tracker.fatigue_window[i] = 8500
    /\ ~FatigueTrend(tracker.fatigue_window)

\* start_session clears the flag
C24_StartSessionResets ==
    call.fn = "start_session" => ~tracker.fatigue_detected

\* validate_angles answered False for the angles of the request, or raised
AnglesInvalid == validate_angles(request.angles) # Returned(TRUE)

\* the request has returned without a score: its angles were invalid, its pose
\* has no rule set, or an engine raised
CannotEvaluate ==
    /\ pc = "done"
    /\ \/ AnglesInvalid
       \/ ("get_pose_rules" \in Range(calls) /\ base_rules = EmptyDict)
       \/ IsRaised(evaluation)

\* C23: whenever the pipeline cannot evaluate a frame (invalid angles, a pose
\* with no rule set, or an internal exception) the result it returns is not
\* null and has pose_detected = False, pose_name = 'unknown',
\* alignment_score = 0.0 and issues = ['evaluation_error'].
C23_ErrorResultShape ==
    CannotEvaluate =>
        /\ result # EmptyDict
        /\ ~IsRaised(result)
        /\ result.pose_detected = FALSE
        /\ result.pose_name = "unknown"
        /\ result.alignment_score = 0
        /\ result.issues = <<"evaluation_error">>

\* a pose without a rule set, asked for with valid angles
C23_Witness ==
    /\ CannotEvaluate
    /\ ~AnglesInvalid
    /\ request.pose_name = "tree_pose"
    /\ calls = <<"validate_angles", "get_pose_rules">>
    /\ result.pose_name = "unknown"
    /\ result.pose_detected = FALSE

\* angles out of range, and an exception of the rule engine
C23_InvalidAnglesWitness ==
    /\ CannotEvaluate
    /\ validate_angles(request.angles) = Returned(FALSE)
    /\ result.pose_name = "unknown"
C23_ExceptionWitness ==
    /\ CannotEvaluate
    /\ IsRaised(evaluation)
    /\ result.pose_name = "unknown"

\* the angles of the request are the eight fields of JointAngles
FullAngles ==
    DOMAIN request.angles =
        {"left_knee_angle", "right_knee_angle", "left_elbow_angle",
         "right_elbow_angle", "left_hip_angle", "right_hip_angle",
         "spine_angle", "shoulder_angle"}

C25_ScoredWitness ==
    /\ pc = "done"
    /\ FullAngles /\ ~AnglesInvalid /\ KnownPose
    /\ "evaluate_pose" \in Range(calls)
    /\ result.issues # <<>>
    /\ result.risk_level = safety_result.risk_level

\* a caller of the session manager whose angles map lacks a key the rules
\* read: the rule engine raises and the error response carries 'medium'
C25_MissingKeyWitness ==
    /\ pc = "done"
    /\ ~FullAngles /\ ~AnglesInvalid /\ KnownPose
    /\ IsRaised(evaluation)
    /\ safety_result.risk_level = "low"
    /\ result.risk_level = "medium"

\* C27: in every pipeline result with pose_detected = True and an empty
\* issues list alignment_score is 100.0, for every pose of the rule map.
C27_NoIssuesMeansFullScore ==
    (pc = "done" /\ result.pose_detected /\ result.issues = <<>>) =>
        result.alignment_score = 10000

\* 'pranamasana': none of its rules is scored, no issue, the affirmation as
\* coaching sentence, and a score of 0
C27_Witness ==
    /\ pc = "done"
    /\ request.pose_name = "pranamasana"
    /\ result.pose_detected
    /\ result.issues = <<>>
    /\ result.coaching_sentence = "Excellent alignment. Maintain steady breathing."
    /\ total_rules(request.landmarks, request.angles,
                   Get(safety_result, "adapted_rules", base_rules)) = 0
    /\ result.alignment_score = 0

\* with at least one scored rule, no issue does mean 100.0
C27_FullScoreWhenScored ==
    (pc = "done" /\ result.pose_detected /\ result.issues = <<>>
        /\ total_rules(request.landmarks, request.angles,
                       Get(safety_result, "adapted_rules", base_rules)) > 0) =>
        result.alignment_score = 10000

\* the request left shoulder_angle out and its other angles are in [0, 180]
ShoulderOmitted ==
    /\ FullAngles
    /\ request.angles["shoulder_angle"] = None
    /\ \A k \in DOMAIN request.angles \ {"shoulder_angle"} :
          /\ IsNumber(request.angles[k])
          /\ 0 <= request.angles[k].v /\ request.angles[k].v <= 180

\* C28: a request that omits shoulder_angle (None in the angles map) and
\* whose other angles are in [0, 180] passes validation: validate_angles
\* returns True and the pipeline goes on to rule lookup instead of returning
\* an error response.
C28_OmittedShoulderPasses ==
    (ShoulderOmitted /\ "validate_angles" \in Range(calls)) =>
        /\ validate_angles(request.angles) = Returned(TRUE)
        /\ pc = "get_rules" \/ "get_pose_rules" \in Range(calls)
        /\ pc = "done" => result # _error_response("Internal evaluation error")

\* the comparison with None raised and the request got the error response
C28_Witness ==
    /\ pc = "done"
    /\ ShoulderOmitted
    /\ validate_angles(request.angles) = Raised("TypeError")
    /\ calls = <<"validate_angles">>
    /\ result = _error_response("Internal evaluation error")

\* C26: no evaluation call is served with an engine obtained before
\* DependencyContainer.initialize() has completed: before initialize, reading
\* physics_engine, rule_engine, safety_engine or correction_engine raises
\* RuntimeError instead of returning an engine; after initialize has completed
\* all four are returned, for every later request; a request is only ever
\* being served by an initialized container.
C26_EnginesOnlyAfterInitialize ==
    /\ startup = "starting" =>
          \A name \in RequiredEngines :
              EngineProperty(engines, name) = Raised("RuntimeError")
    /\ initialized =>
          \A name \in RequiredEngines :
              EngineProperty(engines, name) = Returned(Engine(name))
    /\ pc # "idle" =>
          /\ initialized
          /\ startup = "serving"
          /\ \A name \in RequiredEngines : engines[name] = Engine(name)
    /\ (call.fn = "property" /\ call.name \in RequiredEngines) =>
          /\ ret \in {Raised("RuntimeError"), Returned(Engine(call.name))}
          /\ ret = Returned(Engine(call.name)) => startup # "starting"

\* a property read before initialize raised
C26_Witness ==
    /\ call.fn = "property"
    /\ call.name = "safety_engine"
    /\ startup = "starting"
    /\ ret = Raised("RuntimeError")

\* a property read between two requests of an initialized container
C26_AvailableWitness ==
    /\ call.fn = "property"
    /\ call.name = "safety_engine"
    /\ initialized /\ startup = "serving"
    /\ ret = Returned(Engine("safety_engine"))

\* a request being served by an initialized container
C26_ServingWitness ==
    /\ pc = "evaluate"
    /\ initialized
    /\ \A name \in RequiredEngines : engines[name] = Engine(name)

\* initialize raised in the safety engine: the two engines built before it
\* are handed out, the other two raise, and no request is served
C26_FailedInitializeWitness ==
    /\ startup = "failed"
    /\ ~initialized
    /\ EngineProperty(engines, "physics_engine") = Returned(Engine("physics_engine"))
    /\ EngineProperty(engines, "safety_engine") = Raised("RuntimeError")

\* the last-spoken state of the manager
LastSpoken(v) == <<v.last_spoken_message, v.last_spoken_timestamp>>

\* the step is a speak call without force of a sentence without praise keyword
\* that the TTS engine played with success less than correction_cooldown ago
RepeatedWithinCooldown ==
    /\ call'.fn = "speak"
    /\ ~call'.force
    /\ ~_is_praise_message(call'.sentence)
    /\ call'.sentence \in DOMAIN voice.played_at
    /\ voice.clock - voice.played_at[call'.sentence] < correction_cooldown

\* the call returned False, the TTS engine was not invoked, the last-spoken
\* state is as before
Refused ==
    /\ ret' = Returned(FALSE)
    /\ call'.play = "none"
    /\ LastSpoken(voice') = LastSpoken(voice)

\* a forced call reaches the TTS engine; a play that failed or raised leaves
\* the last-spoken state as it was
ForceAndFailure ==
    /\ (call'.fn = "speak" /\ call'.force) => call'.play # "none"
    /\ (call'.fn = "speak" /\ call'.play \in {"failed", "raise"}) =>
          /\ ret' = Returned(FALSE)
          /\ LastSpoken(voice') = LastSpoken(voice)

\* C30 as stated: after speak(s) has succeeded at time t for a sentence s
\* without praise keyword, every speak(s) without force at a time t' with
\* t' - t < correction_cooldown returns False without invoking the TTS engine
\* and leaves the last-spoken state unchanged; force bypasses the cooldown; a
\* failed or raising play never updates the last-spoken state.
C30_RepeatRefusedWithinCooldown ==
    [][(RepeatedWithinCooldown => Refused) /\ ForceAndFailure]_vars

\* C30, amended: the same, for every speak(s) made while s is still the last
\* spoken message (no other sentence was played with success and reset was
\* not called since).
C30_RepeatOfLastMessageRefused ==
    [][((RepeatedWithinCooldown /\ voice.last_spoken_message = Str(call'.sentence))
            => Refused)
       /\ ForceAndFailure]_vars

\* the last message asked for again between one and five seconds later
C30_Witness ==
    /\ call.fn = "speak"
    /\ ~call.force
    /\ call.sentence = "Straighten your knees gently."
    /\ voice.last_spoken_message = Str(call.sentence)
    /\ voice.played_at[call.sentence] = voice.last_spoken_timestamp
    /\ voice.clock - voice.last_spoken_timestamp \in 1..(correction_cooldown - 1)
    /\ call.play = "none"
    /\ ret = Returned(FALSE)

\* another sentence was spoken in between: the first is played again two
\* seconds after it was played
C30_InterleavedWitness ==
    /\ call.fn = "speak"
    /\ ~call.force
    /\ call.sentence = "Straighten your knees gently."
    /\ ret = Returned(TRUE)
    /\ "Lift your hips higher." \in DOMAIN voice.played_at
    /\ voice.played_at["Lift your hips higher."] = voice.clock - 1

\* a forced call within the cooldown was played
C30_ForceWitness ==
    /\ call.fn = "speak"
    /\ call.force
    /\ call.play = "played"
    /\ ret = Returned(TRUE)
    /\ voice.last_spoken_timestamp = voice.clock

=============================================================================
